---- MODULE Spec2Model ----
(***************************************************************************)
(* Model of scripts/combine.py (the normaliser, the deduplicator and the   *)
(* combiner of the health-insurance provider pipeline) and of the parts of *)
(* the source adapters that feed it.                                       *)
(*                                                                         *)
(* Representation.                                                         *)
(*  - A Python str is a sequence of chunks; a chunk is a TLA+ string that  *)
(*    stands for a run of characters (a word, a number, one whitespace     *)
(*    character).  Concatenation of chunks is concatenation of text, so    *)
(*    <<"Foo", " ", "sheh">> is the text "Foo sheh".  " " and "\t" are the *)
(*    whitespace characters.                                               *)
(*  - Azerbaijani letters are transliterated to ASCII in chunk names:      *)
(*    "Baky" is the capital spelt with a dotless i, "Baki" with a dotted   *)
(*    i, "Gence", "Sumqayit", "Xirdalan", "Absheron_az" (the gazetteer key *)
(*    spelt with s-cedilla and schwa), "sheh" (the word for "city").       *)
(*  - Python None is the empty set, a present value v is {v}.              *)
(*  - A float is an integer number of 1e-5 degrees (40.38 is 4038000).     *)
(***************************************************************************)
EXTENDS Integers, Sequences, FiniteSets, TLC

VARIABLES
    \* ---- combine.main ----
    pc,               \* position in main(): "load", "dedup", "save", "done"
    src_idx,          \* index of the source file main() loads next
    loaded,           \* main(): the list load_csv returned, by source
    all_records,      \* main(): all_records
    unique_records,   \* main(): unique_records
    duplicates,       \* main(): duplicates
    source_counts,    \* main(): source_counts
    type_counts,      \* main(): type_counts
    region_counts,    \* main(): region_counts
    combined,         \* the rows written to combined.csv (None before the write)
    data_dir,         \* the CSV files of DATA_DIR, by index of SOURCE_FILES
    \* ---- one iteration of the loop of load_csv ----
    rpc,              \* "aiic", "row", "normalized", "done", "idle"
    maps_url,         \* the map link of an AIIC accordion item
    p_tags,           \* the paragraphs of the body of an AIIC accordion item
    details,          \* the detail text of an Ateshgah card
    location_x,       \* LOCATION_X of an A-Group item
    location_y,       \* LOCATION_Y of an A-Group item
    config,           \* the entry of SOURCE_FILES the row is loaded under
    row,              \* the csv.DictReader row
    name, provider_type, phone, latitude, longitude, city, region_category,
    records,          \* load_csv: records
    \* ---- deduplicate_records applied to a list and to its own output ----
    dpc,              \* "start", "once", "twice", "idle"
    d_records,        \* the input list
    d_first,          \* (unique_records, duplicates) of the first call
    d_second,         \* (unique_records, duplicates) of the second call
    \* ---- a_group.fetch_xml_hospitals ----
    x_pc,             \* "list", "items", "done", "idle"
    list_response,    \* the answer of the server to the list request
    hospital_blocks,  \* fetch_xml_hospitals: hospital_blocks
    detail_outcomes,  \* the outcomes of the detail requests made so far
    x_records,        \* fetch_xml_hospitals: records (the list returned at "done")
    \* ---- runs of a_group.main, followed by a run of combine.main ----
    f_pc,             \* "idle", "start", "endpoint", "dedup", "save", "finished", "exited"
    run,              \* the number of runs of a_group.main started
    endpoint_idx,     \* index of the endpoint a_group.main fetches next
    response,         \* the answer to the latest request of the run
    f_log,            \* what the latest run printed for each endpoint
    f_all_records,    \* a_group.main: all_records
    f_unique_records, \* a_group.main: unique_records
    \* ---- meqa_sigorta: one page, from its text to its processed records ----
    m_pc,             \* "page", "points", "hours", "done", "idle"
    html_content,     \* the page: its medPoints literal and its rendered cards
    m_records,        \* main(): records, what extract_med_points returned
    working_hours,    \* main(): working_hours, what extract_working_hours returned
    processed,        \* main(): processed, what process_records returned
    \* ---- a fetcher's own removal of duplicates, then the combiner ----
    s_pc,             \* "fetched", "saved", "done", "idle"
    s_source,         \* index in SOURCE_FILES of the source of the fetcher
    s_records,        \* the fetcher's main(): all_records
    s_unique,         \* the fetcher's main(): unique_records
    with_step,        \* what the combiner keeps of the file of unique_records
    without_step      \* what the combiner keeps of a file of all_records

vars == <<pc, src_idx, loaded, all_records, unique_records, duplicates,
          source_counts, type_counts, region_counts, combined, data_dir,
          rpc, maps_url, p_tags, details, location_x, location_y, config, row, name,
          provider_type, phone, latitude, longitude, city, region_category, records,
          dpc, d_records, d_first, d_second,
          x_pc, list_response, hospital_blocks, detail_outcomes, x_records,
          f_pc, run, endpoint_idx, response, f_log, f_all_records, f_unique_records,
          m_pc, html_content, m_records, working_hours, processed,
          s_pc, s_source, s_records, s_unique, with_step, without_step>>

main_vars == <<pc, src_idx, loaded, all_records, unique_records, duplicates,
               source_counts, type_counts, region_counts, combined, data_dir>>
row_vars  == <<rpc, maps_url, p_tags, details, location_x, location_y, config, row, name,
               provider_type, phone, latitude, longitude, city, region_category, records>>
dedup_vars == <<dpc, d_records, d_first, d_second>>
xml_vars == <<x_pc, list_response, hospital_blocks, detail_outcomes, x_records>>
fetch_vars == <<f_pc, run, endpoint_idx, response, f_log, f_all_records, f_unique_records>>
meqa_vars == <<m_pc, html_content, m_records, working_hours, processed>>
source_vars == <<s_pc, s_source, s_records, s_unique, with_step, without_step>>
adapter_vars == <<meqa_vars, source_vars>>

----------------------------------------------------------------------------
(* Bounds of the model.                                                    *)

MaxTypeLen == 2      \* chunks in a raw type token
MaxNameLen == 3      \* chunks in a raw name
MaxAddrLen == 4      \* chunks in a raw address
MaxUrlLen == 4       \* chunks in the map link of an AIIC item
MaxPhoneLen == 4     \* chunks in a raw phone value
MaxDetailLen == 4    \* chunks in the detail text of an Ateshgah card
MaxDedupLen == 3     \* records in a list handed to deduplicate_records
MaxLoaded == 3       \* rows read by one run of main() over all source files
MaxBlocks == 3       \* hospital blocks in the list response of the clinics endpoint
MaxItems == 1        \* items in the response of an endpoint, in a run of a_group.main
MaxRuns == 2         \* runs of a_group.main before the run of combine.main
MaxParagraphs == 3   \* paragraphs in the body of an AIIC accordion item
MaxFetched == 2      \* records a fetcher has before it removes its duplicates
MaxObjects == 2      \* objects in the medPoints literal of a Meqa Sigorta page
MaxCards == 2        \* rendered cards of a Meqa Sigorta page

----------------------------------------------------------------------------
(* Python values.                                                          *)

None == {}
Some(v) == {v}
Get(o) == CHOOSE v \in o : TRUE

\* Python truthiness of an optional str: None and "" are false.
Truthy(o) == o # None /\ Get(o) # <<>>

\* All sequences over S of length at most n.
SeqUpTo(S, n) == UNION {[1..k -> S] : k \in 0..n}

IsSpace(c) == c \in {" ", "\t", "\n"}

RECURSIVE lstrip(_)
lstrip(s) == IF s # <<>> /\ IsSpace(Head(s)) THEN lstrip(Tail(s)) ELSE s

RECURSIVE rstrip(_)
rstrip(s) ==
    IF s # <<>> /\ IsSpace(s[Len(s)]) THEN rstrip(SubSeq(s, 1, Len(s) - 1)) ELSE s

\* str.strip()
strip(s) == rstrip(lstrip(s))

\* re.sub(r'\s+', ' ', s): every maximal run of whitespace becomes one " ".
RECURSIVE collapse_ws(_)
collapse_ws(s) ==
    IF s = <<>> THEN <<>>
    ELSE IF IsSpace(Head(s))
         THEN <<" ">> \o collapse_ws(lstrip(s))
         ELSE <<Head(s)>> \o collapse_ws(Tail(s))

\* The letter-case forms of the words of the model: l lower, u upper, m mixed.
\* str.upper() maps both the dotted and the dotless i to "I", so the two
\* spellings of a name have the same upper-case form.
Words == {
    [l |-> "pharmacy", m |-> "Pharmacy", u |-> "PHARMACY"],
    [l |-> "clinic", m |-> "Clinic", u |-> "CLINIC"],
    [l |-> "dental", m |-> "Dental", u |-> "DENTAL"],
    [l |-> "optics", m |-> "Optics", u |-> "OPTICS"],
    [l |-> "online_pharmacy", m |-> "Online_Pharmacy", u |-> "ONLINE_PHARMACY"],
    [l |-> "medical_service", m |-> "Medical_Service", u |-> "MEDICAL_SERVICE"],
    [l |-> "dental_clinic", m |-> "Dental_Clinic", u |-> "DENTAL_CLINIC"],
    [l |-> "optic", m |-> "Optic", u |-> "OPTIC"],
    [l |-> "unknown", m |-> "Unknown", u |-> "UNKNOWN"],
    [l |-> "other", m |-> "Other", u |-> "OTHER"],
    [l |-> "hospital", m |-> "Hospital", u |-> "HOSPITAL"],
    [l |-> "x", m |-> "X", u |-> "X"],
    [l |-> "y", m |-> "Y", u |-> "Y"],
    [l |-> "nizami", m |-> "Nizami", u |-> "NIZAMI"],
    [l |-> "baky", m |-> "Baky", u |-> "BAKI"],
    [l |-> "baki", m |-> "Baki", u |-> "BAKI"],
    [l |-> "baku", m |-> "Baku", u |-> "BAKU"],
    [l |-> "gence", m |-> "Gence", u |-> "GENCE"],
    [l |-> "sumqayit", m |-> "Sumqayit", u |-> "SUMQAYIT"],
    [l |-> "quba", m |-> "Quba", u |-> "QUBA"],
    [l |-> "xirdalan", m |-> "Xirdalan", u |-> "XIRDALAN"],
    [l |-> "xirdalan_dotted", m |-> "Xirdalan_dotted", u |-> "XIRDALAN"],
    [l |-> "absheron_az", m |-> "Absheron_az", u |-> "ABSHERON_AZ"],
    [l |-> "absheron", m |-> "Absheron", u |-> "ABSHERON"],
    [l |-> "foo", m |-> "Foo", u |-> "FOO"],
    [l |-> "bar", m |-> "Bar", u |-> "BAR"],
    [l |-> "sheh", m |-> "Sheh", u |-> "SHEH"],
    [l |-> "telefon", m |-> "Telefon", u |-> "TELEFON"],
    [l |-> "bineqedi", m |-> "Bineqedi", u |-> "BINEQEDI"],
    [l |-> "xetai", m |-> "Xetai", u |-> "XETAI"],
    [l |-> "xezer", m |-> "Xezer", u |-> "XEZER"],
    [l |-> "nerimanov", m |-> "Nerimanov", u |-> "NERIMANOV"],
    [l |-> "nesimi", m |-> "Nesimi", u |-> "NESIMI"],
    [l |-> "qaradag", m |-> "Qaradag", u |-> "QARADAG"],
    [l |-> "sabuncu", m |-> "Sabuncu", u |-> "SABUNCU"],
    [l |-> "sebail", m |-> "Sebail", u |-> "SEBAIL"],
    [l |-> "suraxani", m |-> "Suraxani", u |-> "SURAXANI"],
    [l |-> "yasamal", m |-> "Yasamal", u |-> "YASAMAL"],
    [l |-> "pirallahi", m |-> "Pirallahi", u |-> "PIRALLAHI"],
    [l |-> "mingecevir", m |-> "Mingecevir", u |-> "MINGECEVIR"],
    [l |-> "naxcivan", m |-> "Naxcivan", u |-> "NAXCIVAN"],
    [l |-> "lenkeran", m |-> "Lenkeran", u |-> "LENKERAN"],
    [l |-> "sheki", m |-> "Sheki", u |-> "SHEKI"],
    [l |-> "shirvan", m |-> "Shirvan", u |-> "SHIRVAN"],
    [l |-> "yevlax", m |-> "Yevlax", u |-> "YEVLAX"],
    [l |-> "xacmaz", m |-> "Xacmaz", u |-> "XACMAZ"],
    [l |-> "qusar", m |-> "Qusar", u |-> "QUSAR"],
    [l |-> "zaqatala", m |-> "Zaqatala", u |-> "ZAQATALA"],
    [l |-> "masalli", m |-> "Masalli", u |-> "MASALLI"],
    [l |-> "bilesuvar", m |-> "Bilesuvar", u |-> "BILESUVAR"],
    [l |-> "imishli", m |-> "Imishli", u |-> "IMISHLI"],
    [l |-> "salyan", m |-> "Salyan", u |-> "SALYAN"],
    [l |-> "qebele", m |-> "Qebele", u |-> "QEBELE"],
    [l |-> "shamaxi", m |-> "Shamaxi", u |-> "SHAMAXI"],
    [l |-> "goycay", m |-> "Goycay", u |-> "GOYCAY"],
    [l |-> "agdash", m |-> "Agdash", u |-> "AGDASH"],
    [l |-> "berde", m |-> "Berde", u |-> "BERDE"],
    [l |-> "tovuz", m |-> "Tovuz", u |-> "TOVUZ"],
    [l |-> "qazax", m |-> "Qazax", u |-> "QAZAX"],
    [l |-> "er", m |-> "Er", u |-> "ER"],
    [l |-> "dli", m |-> "dli", u |-> "DLI"] }

WordForms == UNION {{w.l, w.m, w.u} : w \in Words}

\* str.upper() and str.lower() of a word chunk.  "BAKI" is the upper-case
\* form of both spellings; its lower-case form is the dotted one.
UpperTable == [c \in WordForms |-> (CHOOSE w \in Words : c \in {w.l, w.m, w.u}).u]
LowerTable ==
    [c \in WordForms |->
        IF c = "BAKI" THEN "baki" ELSE (CHOOSE w \in Words : c \in {w.l, w.m, w.u}).l]

\* Chunks that are no words (digits, punctuation, whitespace) have no case.
upper_chunk(c) == IF c \in WordForms THEN UpperTable[c] ELSE c
lower_chunk(c) == IF c \in WordForms THEN LowerTable[c] ELSE c

\* str.upper(), str.lower()
upper(s) == [i \in 1..Len(s) |-> upper_chunk(s[i])]
lower(s) == [i \in 1..Len(s) |-> lower_chunk(s[i])]

\* A chunk made of letters of the class [A-Za-z...] of detect_city's pattern.
IsLetters(c) == c \in WordForms

\* dict.get(key, default) for a dict whose keys are one chunk long.
DictGet(d, key, default) ==
    IF Len(key) = 1 /\ key[1] \in DOMAIN d THEN d[key[1]] ELSE default

\* needle in haystack, for a needle that is one chunk long.
Contains(haystack, needle) == \E i \in 1..Len(haystack) : haystack[i] = needle

----------------------------------------------------------------------------
(* combine.py: the tables.                                                 *)

\* Mutant: the source files in the order of their file names.
SOURCE_FILES_by_file_name == <<
    [source |-> "A-Group", city_column |-> FALSE],
    [source |-> "AIIC", city_column |-> FALSE],
    [source |-> "Ateshgah", city_column |-> FALSE],
    [source |-> "Meqa Sigorta", city_column |-> TRUE],
    [source |-> "Pasha Insurance", city_column |-> FALSE] >>

\* SOURCE_FILES, in the insertion order main() iterates it in.  city_column
\* is TRUE where field_mapping has a "city" entry.
SOURCE_FILES == <<
    [source |-> "Pasha Insurance", city_column |-> FALSE],
    [source |-> "AIIC", city_column |-> FALSE],
    [source |-> "Ateshgah", city_column |-> FALSE],
    [source |-> "Meqa Sigorta", city_column |-> TRUE],
    [source |-> "A-Group", city_column |-> FALSE] >>

TYPE_MAPPING ==
    ( "PHARMACY" :> "PHARMACY" @@ "CLINIC" :> "CLINIC" @@ "DENTAL" :> "DENTAL"
   @@ "OPTICS" :> "OPTICS"
   @@ "ONLINE_PHARMACY" :> "PHARMACY" @@ "MEDICAL_SERVICE" :> "CLINIC"
   @@ "DENTAL_CLINIC" :> "DENTAL" @@ "OPTIC" :> "OPTICS"
   @@ "pharmacy" :> "PHARMACY" @@ "clinic" :> "CLINIC" @@ "dental" :> "DENTAL"
   @@ "optics" :> "OPTICS" )

BAKU_DISTRICTS == <<
    "Bineqedi", "Xetai", "Xezer", "Nerimanov", "Nesimi", "Nizami",
    "Qaradag", "Sabuncu", "Sebail", "Suraxani", "Yasamal", "Pirallahi",
    "Baky", "Baku", "Baki" >>

\* REGIONS, in insertion order: key (searched in the address) and city name.
REGIONS == <<
    [key |-> "Sumqayit", city |-> "Sumqayit"], [key |-> "Gence", city |-> "Gence"],
    [key |-> "Mingecevir", city |-> "Mingecevir"], [key |-> "Naxcivan", city |-> "Naxcivan"],
    [key |-> "Lenkeran", city |-> "Lenkeran"], [key |-> "Sheki", city |-> "Sheki"],
    [key |-> "Shirvan", city |-> "Shirvan"], [key |-> "Yevlax", city |-> "Yevlax"],
    [key |-> "Xacmaz", city |-> "Xacmaz"], [key |-> "Quba", city |-> "Quba"],
    [key |-> "Qusar", city |-> "Qusar"], [key |-> "Zaqatala", city |-> "Zaqatala"],
    [key |-> "Masalli", city |-> "Masalli"], [key |-> "Bilesuvar", city |-> "Bilesuvar"],
    [key |-> "Imishli", city |-> "Imishli"], [key |-> "Salyan", city |-> "Salyan"],
    [key |-> "Qebele", city |-> "Qebele"], [key |-> "Shamaxi", city |-> "Shamaxi"],
    [key |-> "Goycay", city |-> "Goycay"], [key |-> "Agdash", city |-> "Agdash"],
    [key |-> "Berde", city |-> "Berde"], [key |-> "Tovuz", city |-> "Tovuz"],
    [key |-> "Qazax", city |-> "Qazax"], [key |-> "Xirdalan", city |-> "Absheron"],
    [key |-> "Absheron_az", city |-> "Absheron"] >>

----------------------------------------------------------------------------
(* combine.py: the normaliser.                                             *)

\* Mutant: the default of the lookup is the raw label instead of "OTHER".
normalize_type_raw_default(raw_type) ==
    IF ~Truthy(raw_type) THEN "UNKNOWN"
    ELSE LET t == upper(strip(Get(raw_type)))
             raw == IF Len(t) = 1 THEN t[1] ELSE "RAW"
         IN  DictGet(TYPE_MAPPING, t, DictGet(TYPE_MAPPING, lower(t), raw))

\* Mutant: the token is looked up as written, without .upper().
normalize_type_case_sensitive(raw_type) ==
    IF ~Truthy(raw_type) THEN "UNKNOWN"
    ELSE LET t == strip(Get(raw_type))
         IN  DictGet(TYPE_MAPPING, t, "OTHER")

normalize_type(raw_type) ==
    IF ~Truthy(raw_type) THEN "UNKNOWN"
    ELSE LET t == upper(strip(Get(raw_type)))
         IN  DictGet(TYPE_MAPPING, t, DictGet(TYPE_MAPPING, lower(t), "OTHER"))

\* re.search(r'([letters]+)\s+sheh', address, re.IGNORECASE): the start and
\* the end of group 1 of the leftmost match, or None.  The group is a run of
\* letter chunks, followed by at least one whitespace chunk and a chunk that
\* reads "sheh" in any letter case.
ShehMatches(address) ==
    {m \in (1..Len(address)) \X (1..Len(address)) :
        /\ m[1] <= m[2]
        /\ \A i \in m[1]..m[2] : IsLetters(address[i])
        /\ \E k \in (m[2] + 1)..(Len(address) - 1) :
              /\ \A i \in (m[2] + 1)..k : IsSpace(address[i])
              /\ upper_chunk(address[k + 1]) = "SHEH"}

search_sheh(address) ==
    IF ShehMatches(address) = {} THEN None
    ELSE Some(CHOOSE m \in ShehMatches(address) :
                 \A n \in ShehMatches(address) : m[1] <= n[1])

\* district.upper() and region_key.upper() for every entry of the tables.
DistrictsUpper == {upper_chunk(BAKU_DISTRICTS[d]) : d \in 1..Len(BAKU_DISTRICTS)}
RegionKeysUpper == [r \in 1..Len(REGIONS) |-> upper_chunk(REGIONS[r].key)]

\* Mutant: the last matching entry of the gazetteer decides.
FirstRegion_last_hit(address_upper) ==
    LET hits == {r \in 1..Len(REGIONS) : Contains(address_upper, RegionKeysUpper[r])}
    IN  IF hits = {} THEN None
        ELSE Some(REGIONS[CHOOSE r \in hits : \A q \in hits : r >= q].city)

FirstRegion(address_upper) ==
    LET hits == {r \in 1..Len(REGIONS) : Contains(address_upper, RegionKeysUpper[r])}
    IN  IF hits = {} THEN None
        ELSE Some(REGIONS[CHOOSE r \in hits : \A q \in hits : r <= q].city)

\* Mutant: the gazetteer is searched before the capital's districts.
detect_city_regions_first(address, city_hint) ==
    IF Truthy(city_hint) /\ strip(Get(city_hint)) # <<>>
    THEN strip(Get(city_hint))
    ELSE IF ~Truthy(address) THEN <<"Unknown">>
    ELSE LET address_upper == upper(Get(address))
             m == search_sheh(Get(address))
             word == strip(SubSeq(Get(address), Get(m)[1], Get(m)[2]))
         IN  IF FirstRegion(address_upper) # None
             THEN <<Get(FirstRegion(address_upper))>>
             ELSE IF \E i \in 1..Len(address_upper) : address_upper[i] \in DistrictsUpper
             THEN <<"Baky">>
             ELSE IF Contains(address_upper, "SHEH") /\ m # None
                     /\ upper(word) \notin {<<"BAKI">>}
             THEN word
             ELSE <<"Baky">>

\* Mutant: the last resort is "Unknown" instead of the capital.
detect_city_default_unknown(address, city_hint) ==
    IF Truthy(city_hint) /\ strip(Get(city_hint)) # <<>>
    THEN strip(Get(city_hint))
    ELSE IF ~Truthy(address) THEN <<"Unknown">>
    ELSE LET address_upper == upper(Get(address))
             m == search_sheh(Get(address))
             word == strip(SubSeq(Get(address), Get(m)[1], Get(m)[2]))
         IN  IF \E i \in 1..Len(address_upper) : address_upper[i] \in DistrictsUpper
             THEN <<"Baky">>
             ELSE IF FirstRegion(address_upper) # None
             THEN <<Get(FirstRegion(address_upper))>>
             ELSE IF /\ Contains(address_upper, "SHEH")
                     /\ m # None
                     /\ upper(word) \notin {<<"BAKI">>}
             THEN word
             ELSE <<"Unknown">>

detect_city(address, city_hint) ==
    IF Truthy(city_hint) /\ strip(Get(city_hint)) # <<>>
    THEN strip(Get(city_hint))
    ELSE IF ~Truthy(address) THEN <<"Unknown">>
    ELSE LET address_upper == upper(Get(address))
             m == search_sheh(Get(address))
             word == strip(SubSeq(Get(address), Get(m)[1], Get(m)[2]))
         IN  IF \E i \in 1..Len(address_upper) : address_upper[i] \in DistrictsUpper
             THEN <<"Baky">>
             ELSE IF FirstRegion(address_upper) # None
             THEN <<Get(FirstRegion(address_upper))>>
             ELSE IF /\ \/ Contains(address_upper, "SHEH")
                        \/ \E i \in 1..(Len(address_upper) - 1) :
                              address_upper[i] = "SHEH" /\ address_upper[i + 1] = "ER"
                     /\ m # None
                     /\ upper(word) \notin {<<"BAKI">>, <<"BAKI">>}
             THEN word
             ELSE <<"Baky">>

\* Mutant: only the spellings of the capital count as the capital area.
detect_region_category_capital_only(c) ==
    LET baku_area == {<<"Baky">>, <<"Baku">>, <<"Baki">>}
    IN  IF c \in baku_area THEN "Baky" ELSE "Region"

detect_region_category(c) ==
    LET baku_area == {<<"Baky">>, <<"Baku">>, <<"Baki">>, <<"Absheron">>, <<"Xirdalan">>}
    IN  IF c \in baku_area THEN "Baky" ELSE "Region"

\* s.split(sep)[0]
RECURSIVE split_first(_, _)
split_first(s, sep) ==
    IF s = <<>> \/ Head(s) = sep THEN <<>>
    ELSE <<Head(s)>> \o split_first(Tail(s), sep)

\* Mutant: the text after the last ";" is kept.
clean_phone_keeps_last(p) ==
    IF ~Truthy(p) THEN <<>>
    ELSE LET RECURSIVE split_last(_, _)
             split_last(t, sep) ==
                 IF t = <<>> \/ t[Len(t)] = sep THEN <<>>
                 ELSE split_last(SubSeq(t, 1, Len(t) - 1), sep) \o <<t[Len(t)]>>
         IN  strip(split_first(split_last(Get(p), ";"), "/"))

clean_phone(p) ==
    IF ~Truthy(p) THEN <<>>
    ELSE strip(split_first(split_first(Get(p), ";"), "/"))

\* Mutant: whitespace runs are collapsed but the ends are not trimmed.
clean_name_no_strip(n) ==
    IF ~Truthy(n) THEN <<>> ELSE collapse_ws(Get(n))

clean_name(n) ==
    IF ~Truthy(n) THEN <<>> ELSE strip(collapse_ws(Get(n)))

\* The decimal texts float() accepts, with their values in 1e-5 degrees.
\* None of them is a tie of rounding to 4 decimal places.
FloatValue ==
    ( "0" :> 0 @@ "0.0" :> 0 @@ "10.0" :> 1000000 @@ "40.37996" :> 4037996 @@ "40.38" :> 4038000
   @@ "40.38004" :> 4038004 @@ "40.3802" :> 4038020 @@ "45.0" :> 4500000
   @@ "49.86" :> 4986000 @@ "49.86003" :> 4986003 @@ "60.0" :> 6000000
   @@ "5.5" :> 550000 @@ "100.5" :> 10050000 @@ "-49.86" :> -4986000 )

\* float(text) raises ValueError unless the text, trimmed, is a decimal.
IsFloat(text) == Len(strip(text)) = 1 /\ strip(text)[1] \in DOMAIN FloatValue
float(text) == FloatValue[strip(text)[1]]

LAT_MIN == 3800000
LAT_MAX == 4200000
LON_MIN == 4400000
LON_MAX == 5200000

\* Mutant: each value is converted on its own and the pair is returned
\* without the test that both are present.
parse_coordinates_independent(lat, lon) ==
    IF Truthy(lat) /\ ~IsFloat(Get(lat)) THEN <<None, None>>
    ELSE IF Truthy(lon) /\ ~IsFloat(Get(lon)) THEN <<None, None>>
    ELSE <<IF Truthy(lat) THEN Some(float(Get(lat))) ELSE None,
           IF Truthy(lon) THEN Some(float(Get(lon))) ELSE None>>

\* The bounds test of the source compares the constants 44.0 <= 52.0 where
\* the longitude was meant; it is modelled as written.
parse_coordinates(lat, lon) ==
    IF Truthy(lat) /\ ~IsFloat(Get(lat)) THEN <<None, None>>
    ELSE IF Truthy(lon) /\ ~IsFloat(Get(lon)) THEN <<None, None>>
    ELSE LET lat_f == IF Truthy(lat) THEN Some(float(Get(lat))) ELSE None
             lon_f == IF Truthy(lon) THEN Some(float(Get(lon))) ELSE None
         IN  IF lat_f = None \/ lon_f = None THEN <<None, None>>
             ELSE IF /\ ~(/\ LAT_MIN <= Get(lat_f) /\ Get(lat_f) <= LAT_MAX
                          /\ LON_MIN <= LON_MAX)
                     /\ LAT_MIN <= Get(lon_f) /\ Get(lon_f) <= LAT_MAX
                     /\ LON_MIN <= Get(lat_f) /\ Get(lat_f) <= LON_MAX
             THEN <<lon_f, lat_f>>
             ELSE <<lat_f, lon_f>>

\* row.get(column, ""): a column the file lacks reads as "".
city_hint_of(cfg, r) == IF cfg.city_column THEN r.city ELSE Some(<<>>)

\* The record load_csv builds from the locals of one loop iteration.
make_record(cfg, r, n, t, p, la, lo, c, rc) ==
    [name |-> n, type |-> t,
     address |-> IF Truthy(r.address) THEN strip(Get(r.address)) ELSE <<>>,
     phone |-> p, latitude |-> la, longitude |-> lo,
     city |-> c, region_category |-> rc, source |-> cfg.source]

\* One iteration of the loop of load_csv: the records it appends.
load_row(cfg, r) ==
    LET n == clean_name(r.name)
        coords == parse_coordinates(r.latitude, r.longitude)
        c == detect_city(r.address, city_hint_of(cfg, r))
    IN  IF n # <<>>
        THEN <<make_record(cfg, r, n, normalize_type(r.type), clean_phone(r.phone),
                           coords[1], coords[2], c, detect_region_category(c))>>
        ELSE <<>>

\* load_csv for a file that holds `rows`; None is a file that cannot be opened.
RECURSIVE load_rows(_, _)
load_rows(cfg, rows) ==
    IF rows = <<>> THEN <<>>
    ELSE load_row(cfg, Head(rows)) \o load_rows(cfg, Tail(rows))

load_csv(file, cfg) == IF file = None THEN <<>> ELSE load_rows(cfg, Get(file))


----------------------------------------------------------------------------
(* combine.py: the deduplicator.                                           *)

\* round(v, 4) for a value that is no tie.
round4(v) == ((v + 5) \div 10) * 10

\* `round(lat, 4) if lat else None`: None and 0.0 are both false.
coord_key(c) == IF c # None /\ Get(c) # 0 THEN Some(round4(Get(c))) ELSE None

\* Mutant: records without coordinates are keyed on name and address.
dedup_key_with_address(record) ==
    IF record.latitude = None /\ record.longitude = None
    THEN <<strip(lower(record.name)), "address", strip(record.address)>>
    ELSE <<strip(lower(record.name)), "coordinates",
           <<coord_key(record.latitude), coord_key(record.longitude)>> >>

dedup_key(record) ==
    <<strip(lower(record.name)), coord_key(record.latitude), coord_key(record.longitude)>>

\* Mutant: a later duplicate overwrites the record kept for its key.
dedup_step_last_wins(st, record) ==
    IF dedup_key(record) \notin st.seen
    THEN [seen |-> st.seen \cup {dedup_key(record)},
          unique_records |-> Append(st.unique_records, record),
          duplicates |-> st.duplicates]
    ELSE [seen |-> st.seen,
          unique_records |->
              [k \in 1..Len(st.unique_records) |->
                  IF dedup_key(st.unique_records[k]) = dedup_key(record)
                  THEN record ELSE st.unique_records[k]],
          duplicates |-> st.duplicates + 1]

\* Mutant: the duplicate counter is incremented for every record.
dedup_step_counts_all(st, record) ==
    IF dedup_key(record) \notin st.seen
    THEN [seen |-> st.seen \cup {dedup_key(record)},
          unique_records |-> Append(st.unique_records, record),
          duplicates |-> st.duplicates + 1]
    ELSE [st EXCEPT !.duplicates = @ + 1]

\* The body of the loop of deduplicate_records; st holds seen,
\* unique_records and duplicates.
dedup_step(st, record) ==
    IF dedup_key(record) \notin st.seen
    THEN [seen |-> st.seen \cup {dedup_key(record)},
          unique_records |-> Append(st.unique_records, record),
          duplicates |-> st.duplicates]
    ELSE [st EXCEPT !.duplicates = @ + 1]

RECURSIVE dedup_loop(_, _)
dedup_loop(st, rest) ==
    IF rest = <<>> THEN st ELSE dedup_loop(dedup_step(st, Head(rest)), Tail(rest))

deduplicate_records(recs) ==
    LET st == dedup_loop([seen |-> {}, unique_records |-> <<>>, duplicates |-> 0], recs)
    IN  [unique_records |-> st.unique_records, duplicates |-> st.duplicates]

----------------------------------------------------------------------------
(* combine.py: the summaries of main().                                    *)

\* A dict of counters is a sequence of (key, count) pairs in insertion order.
counts_get(counts, key, default) ==
    LET hits == {i \in 1..Len(counts) : counts[i].key = key}
    IN  IF hits = {} THEN default ELSE counts[CHOOSE i \in hits : TRUE].count

\* counts[key] = value
counts_set(counts, key, value) ==
    IF \E i \in 1..Len(counts) : counts[i].key = key
    THEN [i \in 1..Len(counts) |->
             IF counts[i].key = key THEN [key |-> key, count |-> value] ELSE counts[i]]
    ELSE Append(counts, [key |-> key, count |-> value])

\* Mutant: a key that is met again is set to 1.
count_step_resets(counts, key) == counts_set(counts, key, 1)

\* counts[key] = counts.get(key, 0) + 1
count_step(counts, key) == counts_set(counts, key, counts_get(counts, key, 0) + 1)

RECURSIVE count_loop(_, _, _)
count_loop(counts, recs, field) ==
    IF recs = <<>> THEN counts
    ELSE count_loop(count_step(counts, Head(recs)[field]), Tail(recs), field)

count_by(recs, field) == count_loop(<<>>, recs, field)

----------------------------------------------------------------------------
(* combine.py: the sink.                                                   *)

\* str(float) as csv.DictWriter writes it.
FloatRepr ==
    ( 0 :> "0.0" @@ 1000000 :> "10.0" @@ 4037996 :> "40.37996" @@ 4038000 :> "40.38"
   @@ 4038004 :> "40.38004" @@ 4038020 :> "40.3802" @@ 4500000 :> "45.0"
   @@ 4986000 :> "49.86" @@ 4986003 :> "49.86003" @@ 6000000 :> "60.0"
   @@ 550000 :> "5.5" @@ 10050000 :> "100.5" @@ -4986000 :> "-49.86" )

\* The cell csv.DictWriter writes for an optional float: "" for None.
coord_cell(c) == IF c = None THEN <<>> ELSE <<FloatRepr[Get(c)]>>

csv_row(record) ==
    [name |-> record.name, type |-> <<record.type>>, address |-> record.address,
     phone |-> record.phone, latitude |-> coord_cell(record.latitude),
     longitude |-> coord_cell(record.longitude), city |-> record.city,
     region_category |-> <<record.region_category>>, source |-> <<record.source>>]

save_combined_csv(recs) == [i \in 1..Len(recs) |-> csv_row(recs[i])]

\* The text csv.DictWriter writes (lines 289-298) and csv.DictReader reads
\* (lines 220-221), one chunk per character that matters to the format.
CSV_FIELDNAMES ==
    <<"name", "type", "address", "phone", "latitude", "longitude", "city",
      "region_category", "source">>

\* QUOTE_MINIMAL: a field is quoted when it holds the delimiter, the quote
\* character or a character of a line end.
needs_quotes(field) == \E i \in 1..Len(field) : field[i] \in {",", "\"", "\r", "\n"}

RECURSIVE double_quotes(_)
double_quotes(field) ==
    IF field = <<>> THEN <<>>
    ELSE (IF Head(field) = "\"" THEN <<"\"", "\"">> ELSE <<Head(field)>>)
         \o double_quotes(Tail(field))

\* Mutant: a field is written as it is.
csv_field_never_quotes(field) == field

csv_field(field) ==
    IF needs_quotes(field) THEN <<"\"">> \o double_quotes(field) \o <<"\"">> ELSE field

RECURSIVE csv_join(_)
csv_join(cells) ==
    IF cells = <<>> THEN <<>>
    ELSE IF Len(cells) = 1 THEN csv_field(cells[1])
    ELSE csv_field(cells[1]) \o <<",">> \o csv_join(Tail(cells))

\* writer.writerow: the cells, separated by commas, and the line end "\r\n".
csv_line(cells) == csv_join(cells) \o <<"\r", "\n">>

RECURSIVE csv_lines(_)
csv_lines(rows) ==
    IF rows = <<>> THEN <<>>
    ELSE csv_line([i \in 1..Len(CSV_FIELDNAMES) |-> Head(rows)[CSV_FIELDNAMES[i]]])
         \o csv_lines(Tail(rows))

\* writeheader followed by writerows, into a file opened with newline=''.
csv_text(rows) ==
    csv_line([i \in 1..Len(CSV_FIELDNAMES) |-> <<CSV_FIELDNAMES[i]>>]) \o csv_lines(rows)

\* open(filepath, 'r'): universal newlines turn "\r\n" and "\r" into "\n".
\* "" marks the "\n" of a "\r\n", which is dropped.
universal_newlines(text) ==
    LET marked == [i \in 1..Len(text) |->
                      IF text[i] = "\n" /\ i > 1 /\ text[i - 1] = "\r" THEN ""
                      ELSE IF text[i] = "\r" THEN "\n" ELSE text[i]]
    IN  SelectSeq(marked, LAMBDA c : c # "")

\* One character of the parser of csv.reader.
csv_save_field(st, mode) ==
    [st EXCEPT !.mode = mode, !.field = <<>>, !.row = Append(st.row, st.field)]
csv_end_record(st) ==
    [mode |-> "start_record", field |-> <<>>, row |-> <<>>,
     rows |-> Append(st.rows, Append(st.row, st.field))]
csv_add_char(st, c, mode) ==
    [st EXCEPT !.mode = mode, !.field = Append(st.field, c)]

csv_step(st, c) ==
    CASE st.mode = "start_record" ->
            IF c = "\n" THEN [st EXCEPT !.rows = Append(st.rows, <<>>)]
            ELSE IF c = "\"" THEN [st EXCEPT !.mode = "in_quoted"]
            ELSE IF c = "," THEN csv_save_field(st, "start_field")
            ELSE csv_add_char(st, c, "in_field")
      [] st.mode = "start_field" ->
            IF c = "\n" THEN csv_end_record(st)
            ELSE IF c = "\"" THEN [st EXCEPT !.mode = "in_quoted"]
            ELSE IF c = "," THEN csv_save_field(st, "start_field")
            ELSE csv_add_char(st, c, "in_field")
      [] st.mode = "in_field" ->
            IF c = "\n" THEN csv_end_record(st)
            ELSE IF c = "," THEN csv_save_field(st, "start_field")
            ELSE csv_add_char(st, c, "in_field")
      [] st.mode = "in_quoted" ->
            IF c = "\"" THEN [st EXCEPT !.mode = "quote_in_quoted"]
            ELSE csv_add_char(st, c, "in_quoted")
      [] OTHER ->
            IF c = "\"" THEN csv_add_char(st, c, "in_quoted")
            ELSE IF c = "," THEN csv_save_field(st, "start_field")
            ELSE IF c = "\n" THEN csv_end_record(st)
            ELSE csv_add_char(st, c, "in_field")

\* The parser run over the characters from position i to the end of the
\* record that is open there.
RECURSIVE csv_parse_record(_, _, _)
csv_parse_record(st, text, i) ==
    IF i > Len(text) THEN [st |-> st, i |-> i]
    ELSE LET nxt == csv_step(st, text[i])
         IN  IF nxt.mode = "start_record" THEN [st |-> nxt, i |-> i + 1]
             ELSE csv_parse_record(nxt, text, i + 1)

\* The parser run over the text from position i on, record after record.
RECURSIVE csv_parse(_, _, _)
csv_parse(st, text, i) ==
    IF i > Len(text) THEN st
    ELSE LET rec == csv_parse_record(st, text, i)
         IN  csv_parse(rec.st, text, rec.i)

\* csv.reader: the rows of the text, each a sequence of fields.
csv_reader(text) ==
    LET st == csv_parse([mode |-> "start_record", field |-> <<>>, row |-> <<>>,
                         rows |-> <<>>], text, 1)
    IN  IF st.mode = "start_record" THEN st.rows ELSE csv_end_record(st).rows

\* csv.DictReader: the first row names the columns, empty rows are skipped,
\* a missing cell is None.
FieldIndex(fieldnames, k) ==
    CHOOSE i \in 1..Len(fieldnames) :
        /\ fieldnames[i] = <<k>>
        /\ \A j \in (i + 1)..Len(fieldnames) : fieldnames[j] # <<k>>
dict_row(fieldnames, cells) ==
    [k \in {fieldnames[i][1] : i \in {j \in 1..Len(fieldnames) : Len(fieldnames[j]) = 1}} |->
        IF FieldIndex(fieldnames, k) <= Len(cells)
        THEN Some(cells[FieldIndex(fieldnames, k)]) ELSE None]
RECURSIVE non_empty_rows(_)
non_empty_rows(rows) ==
    IF rows = <<>> THEN <<>>
    ELSE (IF Head(rows) = <<>> THEN <<>> ELSE <<Head(rows)>>) \o non_empty_rows(Tail(rows))
DictReader(text) ==
    LET rows == non_empty_rows(csv_reader(text))
    IN  IF rows = <<>> THEN <<>>
        ELSE [i \in 1..(Len(rows) - 1) |-> dict_row(rows[1], rows[i + 1])]

\* The combined file read back: the text of the rows written, read through a
\* file opened as load_csv opens its files.
read_combined(rows) == DictReader(universal_newlines(csv_text(rows)))


----------------------------------------------------------------------------
(* aiic.py: the coordinates of an accordion item.                          *)

\* A chunk the class [\d.] matches in full: an unsigned decimal, a dot.
IsDigitsDots(c) == c \in (DOMAIN FloatValue \ {"-49.86"}) \cup {".", "1.2.3"}

RECURSIVE digits_run(_)
digits_run(s) ==
    IF s # <<>> /\ IsDigitsDots(Head(s)) THEN <<Head(s)>> \o digits_run(Tail(s)) ELSE <<>>

\* re.search(tag + r'([\d.]+)', url): group 1 of the leftmost match, or None.
search_token(url, tag) ==
    LET hits == {i \in 1..(Len(url) - 1) : url[i] = tag /\ IsDigitsDots(url[i + 1])}
        first == CHOOSE i \in hits : \A j \in hits : i <= j
    IN  IF hits = {} THEN None
        ELSE Some(digits_run(SubSeq(url, first + 1, Len(url))))

extract_coords_from_maps_url(url) ==
    IF ~Truthy(url) THEN <<None, None>>
    ELSE <<search_token(Get(url), "!3d"), search_token(Get(url), "!2d")>>

\* clean_text for a text without HTML entities.
clean_text(text) == strip(collapse_ws(text))

\* p_clean.lower() == 'telefon'
is_telefon(p_clean) == lower(p_clean) = <<"telefon">>

\* The body of the loop over p_tags (lines 101-109); acc holds address and
\* phone.
body_step(acc, paragraphs, i) ==
    LET p_clean == clean_text(paragraphs[i])
    IN  IF is_telefon(p_clean)
        THEN IF i + 1 <= Len(paragraphs)
             THEN [acc EXCEPT !.phone = clean_text(paragraphs[i + 1])]
             ELSE acc
        ELSE IF acc.address = <<>> /\ p_clean # <<>>
             THEN [acc EXCEPT !.address = p_clean]
             ELSE acc

RECURSIVE body_loop(_, _, _)
body_loop(acc, paragraphs, i) ==
    IF i > Len(paragraphs) THEN acc
    ELSE body_loop(body_step(acc, paragraphs, i), paragraphs, i + 1)

\* Lines 98-109: the address and the phone of the paragraphs of a body.
parse_body(paragraphs) == body_loop([address |-> <<>>, phone |-> <<>>], paragraphs, 1)

\* The row of aiic.csv for an accordion item with this map link and these
\* paragraphs, as extract_items and process_records build it and
\* csv.DictReader reads it.
aiic_row(url, paragraphs) ==
    LET c == extract_coords_from_maps_url(url)
        body == parse_body(paragraphs)
    IN  [name |-> Some(<<"Clinic">>), type |-> Some(<<"CLINIC">>),
         address |-> Some(body.address), phone |-> Some(body.phone),
         latitude |-> IF Truthy(c[1]) THEN c[1] ELSE Some(<<>>),
         longitude |-> IF Truthy(c[2]) THEN c[2] ELSE Some(<<>>),
         city |-> None]

----------------------------------------------------------------------------
(* ateshgah.py: the detail text of a card.                                 *)

\* s.split(sep)
RECURSIVE split(_, _)
split(s, sep) ==
    IF ~Contains(s, sep) THEN <<s>>
    ELSE <<split_first(s, sep)>>
         \o split(SubSeq(s, Len(split_first(s, sep)) + 2, Len(s)), sep)

\* The number of characters of a chunk that consists of characters of the
\* class [\d\-\+\(\)\s] only; every other chunk holds a character outside
\* the class at each end.
PhoneClassLen == (" " :> 1 @@ "\t" :> 1 @@ "12" :> 2 @@ "(055)" :> 5 @@ "0123456" :> 7)

PHONE_RUN_MIN == 7

RECURSIVE class_chars(_)
class_chars(s) == IF s = <<>> THEN 0 ELSE PhoneClassLen[Head(s)] + class_chars(Tail(s))

\* re.search(r'[\d\-\+\(\)\s]{7,}', part)
search_phone_run(part) ==
    \E i \in 1..Len(part) : \E j \in i..Len(part) :
        /\ \A k \in i..j : part[k] \in DOMAIN PhoneClassLen
        /\ class_chars(SubSeq(part, i, j)) >= PHONE_RUN_MIN

\* '@' in part
has_at(part) == \E i \in 1..Len(part) : part[i] \in {"@", "a@b.az"}

\* Mutant: the phone test comes before the test for '@'.
parse_part_phone_first(acc, part) ==
    IF search_phone_run(strip(part))
    THEN [acc EXCEPT !.phone = IF @ # <<>> THEN @ \o <<";", " ">> \o strip(part)
                                           ELSE strip(part)]
    ELSE IF has_at(strip(part)) THEN [acc EXCEPT !.email = strip(part)]
    ELSE [acc EXCEPT !.address = IF @ # <<>> THEN @ \o <<",", " ">> \o strip(part)
                                             ELSE strip(part)]

\* The body of the loop over the parts (lines 89-104); acc holds address,
\* phone and email.
parse_part(acc, part) ==
    IF has_at(strip(part)) THEN [acc EXCEPT !.email = strip(part)]
    ELSE IF search_phone_run(strip(part))
    THEN [acc EXCEPT !.phone = IF @ # <<>> THEN @ \o <<";", " ">> \o strip(part)
                                           ELSE strip(part)]
    ELSE [acc EXCEPT !.address = IF @ # <<>> THEN @ \o <<",", " ">> \o strip(part)
                                             ELSE strip(part)]

RECURSIVE parse_parts(_, _)
parse_parts(acc, parts) ==
    IF parts = <<>> THEN acc ELSE parse_parts(parse_part(acc, Head(parts)), Tail(parts))

\* Line 83: the stripped, non-empty parts of the cleaned detail text.
detail_parts(text) ==
    LET raw == split(clean_text(text), ",")
        NonEmpty(part) == strip(part) # <<>>
        kept == SelectSeq(raw, NonEmpty)
    IN  [k \in 1..Len(kept) |-> strip(kept[k])]

parse_details(text) ==
    parse_parts([address |-> <<>>, phone |-> <<>>, email |-> <<>>], detail_parts(text))

\* The row of ateshgah.csv for a card with this detail text, as
\* extract_items and process_records build it and csv.DictReader reads it.
ateshgah_row(text) ==
    LET d == parse_details(text)
    IN  [name |-> Some(<<"Clinic">>), type |-> Some(<<"CLINIC">>),
         address |-> Some(d.address), phone |-> Some(d.phone),
         latitude |-> Some(<<"40.38">>), longitude |-> Some(<<"49.86">>),
         city |-> None]

----------------------------------------------------------------------------
(* a_group.py: the coordinates of an item.                                 *)

X_HEAD_MAX == 42

\* int(str(abs(x))[:2]): the first two characters of the decimal text of
\* |x| as a number.  Below 10 the second character is the decimal point (or
\* the "e" of an exponent) and int() raises ValueError: None.
x_head(x) ==
    LET a == IF x < 0 THEN -x ELSE x
    IN  IF a < 1000000 THEN None
        ELSE IF a < 10000000 THEN Some(a \div 100000)
        ELSE Some(a \div 1000000)

\* str(x) for a float.
str_float(x) == <<FloatRepr[x]>>

normalize_coordinates(lx, ly) ==
    IF Truthy(lx) /\ ~IsFloat(Get(lx)) THEN <<<<>>, <<>>>>
    ELSE IF Truthy(ly) /\ ~IsFloat(Get(ly)) THEN <<<<>>, <<>>>>
    ELSE IF ~Truthy(lx) \/ ~Truthy(ly) THEN <<<<>>, <<>>>>
    ELSE LET x == float(Get(lx))
             y == float(Get(ly))
         IN  IF x_head(x) = None THEN <<<<>>, <<>>>>
             ELSE IF Get(x_head(x)) > X_HEAD_MAX
             THEN <<str_float(y), str_float(x)>>
             ELSE <<str_float(x), str_float(y)>>

\* The row of a_group.csv for an item with these coordinates, as
\* fetch_json_api builds it and csv.DictReader reads it.
agroup_row(lx, ly) ==
    [name |-> Some(<<"Clinic">>), type |-> Some(<<"CLINIC">>),
     address |-> Some(<<"Foo">>), phone |-> Some(<<"012">>),
     latitude |-> Some(normalize_coordinates(lx, ly)[1]),
     longitude |-> Some(normalize_coordinates(lx, ly)[2]),
     city |-> None]

----------------------------------------------------------------------------
(* a_group.py: the fetchers.                                               *)

\* API_ENDPOINTS, in the insertion order main() iterates it in.
API_ENDPOINTS == <<
    [name |-> "pharmacy", type |-> "PHARMACY", format |-> "json"],
    [name |-> "optiks", type |-> "OPTICS", format |-> "json"],
    [name |-> "stomatology", type |-> "DENTAL", format |-> "json"],
    [name |-> "clinics", type |-> "CLINIC", format |-> "xml"] >>

\* The answer to a request.  kind is "ok", or the exception that
\* requests.get, raise_for_status or response.json raises; body is the list
\* of items (JSON) or of hospital blocks (XML) of an "ok" answer.
Failure(kind) == [kind |-> kind, body |-> <<>>]
Ok(body) == [kind |-> "ok", body |-> body]

\* The subclasses of requests.RequestException and json.JSONDecodeError.
RequestExceptions == {"ConnectionError", "Timeout", "HTTPError"}
JSONDecodeErrors == {"JSONDecodeError"}

\* The record of the loop body of fetch_json_api for one item.
json_record(item, record_type) ==
    [name |-> clean_text(item.NAME), type |-> record_type,
     customer_id |-> item.CUSTOMER_ID,
     address |-> clean_text(item.WORK_ADR_FULL), phone |-> clean_text(item.WORK_PHONE),
     latitude |-> normalize_coordinates(item.LOCATION_X, item.LOCATION_Y)[1],
     longitude |-> normalize_coordinates(item.LOCATION_X, item.LOCATION_Y)[2]]

fetch_json_api(endpoint_config, resp) ==
    IF resp.kind \in RequestExceptions THEN <<>>
    ELSE IF resp.kind \in JSONDecodeErrors THEN <<>>
    ELSE [i \in 1..Len(resp.body) |->
             json_record(resp.body[i], endpoint_config.type)]

\* What the detail endpoint holds for a customer id.
DetailOf(customer_id) ==
    IF customer_id = <<"7">> THEN [WORK_ADR_FULL |-> <<"Foo">>, WORK_PHONE |-> <<"012">>]
    ELSE IF customer_id = <<"8">> THEN [WORK_ADR_FULL |-> <<"Bar">>, WORK_PHONE |-> <<>>]
    ELSE [WORK_ADR_FULL |-> <<>>, WORK_PHONE |-> <<>>]

\* The outcomes of a detail request: an answer with an OK status, an answer
\* with another status, an exception; "none" when no request is made.
DetailOutcomes == {"ok", "not_ok", "ConnectionError", "Timeout"}

\* Mutant: the address and the phone are taken from every answer, whatever
\* its status.
hospital_record_ignores_status(block, record_type, outcome) ==
    LET n == IF block.NAME # <<>> THEN block.NAME
             ELSE IF block.NAME_AZ # <<>> THEN block.NAME_AZ ELSE block.NAME_EN
        got == block.CUSTOMER_ID # <<>> /\ outcome \in {"ok", "not_ok"}
    IN  [name |-> n, type |-> record_type, customer_id |-> block.CUSTOMER_ID,
         address |-> IF got THEN DetailOf(block.CUSTOMER_ID).WORK_ADR_FULL ELSE <<>>,
         phone |-> IF got THEN DetailOf(block.CUSTOMER_ID).WORK_PHONE ELSE <<>>,
         latitude |-> normalize_coordinates(Some(block.LOCATION_X), Some(block.LOCATION_Y))[1],
         longitude |-> normalize_coordinates(Some(block.LOCATION_X), Some(block.LOCATION_Y))[2]]

\* The record of the loop body of fetch_xml_hospitals (lines 180-223) for one
\* block and one outcome of its detail request.
hospital_record(block, record_type, outcome) ==
    LET n == IF block.NAME # <<>> THEN block.NAME
             ELSE IF block.NAME_AZ # <<>> THEN block.NAME_AZ ELSE block.NAME_EN
        got == block.CUSTOMER_ID # <<>> /\ outcome = "ok"
    IN  [name |-> n, type |-> record_type, customer_id |-> block.CUSTOMER_ID,
         address |-> IF got THEN DetailOf(block.CUSTOMER_ID).WORK_ADR_FULL ELSE <<>>,
         phone |-> IF got THEN DetailOf(block.CUSTOMER_ID).WORK_PHONE ELSE <<>>,
         latitude |-> normalize_coordinates(Some(block.LOCATION_X), Some(block.LOCATION_Y))[1],
         longitude |-> normalize_coordinates(Some(block.LOCATION_X), Some(block.LOCATION_Y))[2]]

\* fetch_xml_hospitals for an answer to the list request and the outcomes of
\* the detail requests, by position of the block.
fetch_xml_hospitals(endpoint_config, resp, outcomes) ==
    IF resp.kind \in RequestExceptions THEN <<>>
    ELSE [i \in 1..Len(resp.body) |->
             hospital_record(resp.body[i], endpoint_config.type, outcomes[i])]

\* The loop of main() that removes duplicates (lines 278-288).
agroup_key(record) == <<record.name, record.latitude, record.longitude>>

RECURSIVE agroup_unique(_, _)
agroup_unique(seen, rest) ==
    IF rest = <<>> THEN <<>>
    ELSE IF agroup_key(Head(rest)) \notin seen
    THEN <<Head(rest)>> \o agroup_unique(seen \cup {agroup_key(Head(rest))}, Tail(rest))
    ELSE agroup_unique(seen, Tail(rest))

\* The row csv.DictReader reads for a record that save_to_csv wrote.
agroup_csv_row(record) ==
    [name |-> Some(record.name), type |-> Some(<<record.type>>),
     address |-> Some(record.address), phone |-> Some(record.phone),
     latitude |-> Some(record.latitude), longitude |-> Some(record.longitude),
     city |-> None]

\* save_to_csv: the file after the call.  Without records the function
\* returns before it opens the file, which stays as it was.
save_to_csv(recs, file) ==
    IF recs = <<>> THEN file
    ELSE Some([i \in 1..Len(recs) |-> agroup_csv_row(recs[i])])

----------------------------------------------------------------------------
(* The inputs of the model.                                                *)

OptionalText(S) == {None} \cup {Some(t) : t \in S}

TypeChunks == {" ", "CLINIC", "clinic", "Clinic", "DENTAL_CLINIC", "dental_clinic",
               "OPTIC", "optics", "ONLINE_PHARMACY", "Medical_Service", "PHARMACY",
               "UNKNOWN", "OTHER", "other", "hospital", "HOSPITAL"}
NameChunks == {" ", "\t", "Clinic", "clinic", "X"}
AddrChunks == {" ", "Nizami", "Gence", "Sumqayit", "Xirdalan_dotted", "Foo", "Bar",
               "Sheh", "12"}
UrlChunks  == {"!3d", "!2d", "40.38", "49.86", ".", "x"}
PhoneChunks == {" ", ";", "/", "012", "055"}
DetailChunks == {" ", ",", "@", "Foo", "0123456", "(055)", "12"}
ParagraphTexts == {<<>>, <<"Telefon">>, <<" ", "telefon">>, <<"Foo">>, <<"012">>}
DefaultParagraphs == <<<<"Foo">>, <<"Telefon">>, <<"012">>>>
DefaultUrl == Some(<<"!3d", "40.38", "!2d", "49.86">>)

CoordCells ==
    OptionalText({<<>>, <<"0">>, <<"10.0">>, <<"40.38">>, <<"49.86">>, <<"45.0">>,
                  <<"60.0">>, <<"abc">>, <<"1.2.3">>, <<" ", "40.38">>, <<"40.38", "abc">>})

LocationCells ==
    OptionalText({<<>>, <<"0">>, <<"5.5">>, <<"10.0">>, <<"40.38">>, <<"49.86">>,
                  <<"45.0">>, <<"60.0">>, <<"100.5">>, <<"-49.86">>, <<"abc">>})

HintCells ==
    OptionalText({<<>>, <<" ">>, <<"Quba">>, <<" ", "Quba", " ">>, <<"Baky">>, <<"baky">>,
                  <<"Baku">>, <<"Baki">>, <<"Absheron">>, <<"Xirdalan">>,
                  <<"Xirdalan_dotted">>, <<"Unknown">>})

DefaultRow ==
    [name |-> Some(<<"Clinic">>), type |-> Some(<<"CLINIC">>), address |-> Some(<<>>),
     phone |-> Some(<<>>), latitude |-> Some(<<>>), longitude |-> Some(<<>>),
     city |-> Some(<<>>)]

TypeRows == {[DefaultRow EXCEPT !.type = t] :
                t \in OptionalText(SeqUpTo(TypeChunks, MaxTypeLen))}
NameRows == {[DefaultRow EXCEPT !.name = n] :
                n \in OptionalText(SeqUpTo(NameChunks, MaxNameLen))}
CoordRows == {[DefaultRow EXCEPT !.latitude = la, !.longitude = lo] :
                la \in CoordCells, lo \in CoordCells}
AddrRows == {[DefaultRow EXCEPT !.address = a] :
                a \in OptionalText(SeqUpTo(AddrChunks, MaxAddrLen))}
PhoneRows == {[DefaultRow EXCEPT !.phone = p] :
                p \in OptionalText(SeqUpTo(PhoneChunks, MaxPhoneLen))}
HintRows == {[DefaultRow EXCEPT !.address = a, !.city = h] :
                a \in OptionalText({<<>>, <<"Gence">>, <<"Nizami">>, <<"Foo">>}),
                h \in HintCells}

NoRow == [name |-> None, type |-> None, address |-> None, phone |-> None,
          latitude |-> None, longitude |-> None, city |-> None]

Range(f) == {f[i] : i \in DOMAIN f}

----------------------------------------------------------------------------
(* One iteration of the loop of load_csv, on every row of the input sets,  *)
(* and on the rows the AIIC adapter writes.                                *)

NothingLoaded == [i \in 1..Len(SOURCE_FILES) |-> <<>>]

\* A file of DATA_DIR: known with its content (None when it does not exist),
\* or any file, whose content shows when it is read.
AnyFile == [known |-> FALSE, file |-> None]
KnownFile(file) == [known |-> TRUE, file |-> file]

NoCounts == <<>>

MainLocalsUnset ==
    /\ loaded = NothingLoaded /\ all_records = <<>>
    /\ unique_records = <<>> /\ duplicates = 0
    /\ source_counts = NoCounts /\ type_counts = NoCounts /\ region_counts = NoCounts
    /\ combined = None

MainIdle ==
    /\ pc = "idle" /\ src_idx = 0 /\ MainLocalsUnset
    /\ data_dir = [i \in 1..Len(SOURCE_FILES) |-> AnyFile]

NoResponse == [kind |-> "none", body |-> <<>>]

XmlIdle ==
    /\ x_pc = "idle" /\ list_response = NoResponse /\ hospital_blocks = <<>>
    /\ detail_outcomes = <<>> /\ x_records = <<>>

FetchLocalsUnset ==
    /\ endpoint_idx = 0 /\ response = NoResponse
    /\ f_all_records = <<>> /\ f_unique_records = <<>>

FetchIdle == f_pc = "idle" /\ run = 0 /\ f_log = <<>> /\ FetchLocalsUnset

NoPage == [med_points |-> None, cards |-> <<>>]
MeqaLocalsUnset == m_records = <<>> /\ working_hours = <<>> /\ processed = <<>>
MeqaIdle == m_pc = "idle" /\ html_content = NoPage /\ MeqaLocalsUnset
SourceLocalsUnset == s_unique = <<>> /\ with_step = <<>> /\ without_step = <<>>
SourceIdle == s_pc = "idle" /\ s_source = 0 /\ s_records = <<>> /\ SourceLocalsUnset
AdapterIdle == MeqaIdle /\ SourceIdle

RowLocalsUnset ==
    /\ name = <<>> /\ provider_type = "" /\ phone = <<>> /\ latitude = None
    /\ longitude = None /\ city = <<>> /\ region_category = "" /\ records = <<>>

RowIdle ==
    /\ rpc = "idle" /\ maps_url = None /\ p_tags = <<>> /\ details = <<>>
    /\ location_x = None /\ location_y = None
    /\ config = SOURCE_FILES[1] /\ row = NoRow
    /\ RowLocalsUnset

DedupIdle ==
    /\ dpc = "idle" /\ d_records = <<>>
    /\ d_first = [unique_records |-> <<>>, duplicates |-> 0]
    /\ d_second = [unique_records |-> <<>>, duplicates |-> 0]

InitRow ==
    /\ MainIdle /\ DedupIdle /\ XmlIdle /\ FetchIdle /\ AdapterIdle /\ RowLocalsUnset
    /\ \/ /\ rpc = "agroup" /\ row = NoRow /\ maps_url = None /\ p_tags = <<>> /\ details = <<>>
          /\ config = SOURCE_FILES[5]
          /\ location_x \in LocationCells /\ location_y \in LocationCells
       \/ /\ rpc = "row" /\ maps_url = None /\ p_tags = <<>> /\ details = <<>>
          /\ location_x = None /\ location_y = None
          /\ config = SOURCE_FILES[1]
          /\ row \in TypeRows \cup NameRows \cup CoordRows \cup AddrRows \cup PhoneRows
       \/ /\ rpc = "row" /\ maps_url = None /\ p_tags = <<>> /\ details = <<>>
          /\ location_x = None /\ location_y = None
          /\ config \in Range(SOURCE_FILES)
          /\ row \in HintRows
       \/ /\ rpc = "aiic" /\ row = NoRow /\ details = <<>>
          /\ location_x = None /\ location_y = None
          /\ config = SOURCE_FILES[2]
          /\ \/ /\ maps_url \in OptionalText(SeqUpTo(UrlChunks, MaxUrlLen))
                /\ p_tags = DefaultParagraphs
             \/ /\ maps_url = DefaultUrl
                /\ p_tags \in SeqUpTo(ParagraphTexts, MaxParagraphs)
       \/ /\ rpc = "ateshgah" /\ row = NoRow /\ maps_url = None /\ p_tags = <<>>
          /\ location_x = None /\ location_y = None
          /\ config = SOURCE_FILES[3]
          /\ details \in SeqUpTo(DetailChunks, MaxDetailLen)

\* aiic.py extract_items, process_records and save_to_csv for one item;
\* combine.py then reads the row back.
aiic_extract_items ==
    /\ rpc = "aiic"
    /\ row' = aiic_row(maps_url, p_tags)
    /\ rpc' = "row"
    /\ UNCHANGED <<maps_url, p_tags, details, location_x, location_y, config, name, provider_type,
                   phone, latitude, longitude, city, region_category, records>>
    /\ UNCHANGED <<main_vars, dedup_vars, xml_vars, fetch_vars, adapter_vars>>

\* a_group.py fetch_json_api and save_to_csv for one item; combine.py then
\* reads the row back.
agroup_fetch_item ==
    /\ rpc = "agroup"
    /\ row' = agroup_row(location_x, location_y)
    /\ rpc' = "row"
    /\ UNCHANGED <<maps_url, p_tags, details, location_x, location_y, config, name, provider_type,
                   phone, latitude, longitude, city, region_category, records>>
    /\ UNCHANGED <<main_vars, dedup_vars, xml_vars, fetch_vars, adapter_vars>>

\* ateshgah.py extract_items, process_records and save_to_csv for one card;
\* combine.py then reads the row back.
ateshgah_extract_items ==
    /\ rpc = "ateshgah"
    /\ row' = ateshgah_row(details)
    /\ rpc' = "row"
    /\ UNCHANGED <<maps_url, p_tags, details, location_x, location_y, config, name, provider_type,
                   phone, latitude, longitude, city, region_category, records>>
    /\ UNCHANGED <<main_vars, dedup_vars, xml_vars, fetch_vars, adapter_vars>>

\* load_csv, lines 225-237: the locals of one iteration.
load_csv_normalize ==
    /\ rpc = "row"
    /\ name' = clean_name(row.name)
    /\ phone' = clean_phone(row.phone)
    /\ provider_type' = normalize_type(row.type)
    /\ latitude' = parse_coordinates(row.latitude, row.longitude)[1]
    /\ longitude' = parse_coordinates(row.latitude, row.longitude)[2]
    /\ city' = detect_city(row.address, city_hint_of(config, row))
    /\ region_category' = detect_region_category(city')
    /\ rpc' = "normalized"
    /\ UNCHANGED <<maps_url, p_tags, details, location_x, location_y, config, row, records>>
    /\ UNCHANGED <<main_vars, dedup_vars, xml_vars, fetch_vars, adapter_vars>>

\* load_csv, lines 239-250: the record is appended only if the name exists.
load_csv_append ==
    /\ rpc = "normalized"
    /\ records' = IF name # <<>>
                  THEN Append(records, make_record(config, row, name, provider_type, phone,
                                                   latitude, longitude, city, region_category))
                  ELSE records
    /\ rpc' = "done"
    /\ UNCHANGED <<maps_url, p_tags, details, location_x, location_y, config, row, name,
                   provider_type, phone, latitude, longitude, city, region_category>>
    /\ UNCHANGED <<main_vars, dedup_vars, xml_vars, fetch_vars, adapter_vars>>

NextRow ==
    \/ aiic_extract_items \/ ateshgah_extract_items \/ agroup_fetch_item
    \/ load_csv_normalize \/ load_csv_append

SpecRow == InitRow /\ [][NextRow]_vars


----------------------------------------------------------------------------
(* Properties of one loop iteration of load_csv (SpecRow).                 *)

Normalized == rpc \in {"normalized", "done"}

ProviderTypes == {"PHARMACY", "CLINIC", "DENTAL", "OPTICS", "UNKNOWN", "OTHER"}

InBounds(la, lo) ==
    /\ LAT_MIN <= la /\ la <= LAT_MAX
    /\ LON_MIN <= lo /\ lo <= LON_MAX

\* C3 (as claimed): the coordinates load_csv computes for a row, and those
\* of every record it emits, are both absent or lie within 38 <= latitude
\* <= 42 and 44 <= longitude <= 52.
C3_BoundsOrAbsent ==
    /\ Normalized =>
          \/ latitude = None /\ longitude = None
          \/ /\ latitude # None /\ longitude # None
             /\ InBounds(Get(latitude), Get(longitude))
    /\ \A i \in 1..Len(records) :
          \/ records[i].latitude = None /\ records[i].longitude = None
          \/ /\ records[i].latitude # None /\ records[i].longitude # None
             /\ InBounds(Get(records[i].latitude), Get(records[i].longitude))

\* C4: for every pair of raw coordinate cells, the AIIC rows with only one
\* of the two map-link tokens included, parse_coordinates yields two
\* numbers or two absent values, never one of each.
C4_BothOrNeither ==
    /\ Normalized => ((latitude = None) <=> (longitude = None))
    /\ \A i \in 1..Len(records) :
          (records[i].latitude = None) <=> (records[i].longitude = None)

\* C4 witness: an AIIC item whose map link has a latitude token and no
\* longitude token was written with a parseable latitude and an empty
\* longitude, and was loaded with both coordinates absent.
C4_Witness ==
    /\ rpc = "done" /\ maps_url # None
    /\ search_token(Get(maps_url), "!3d") # None
    /\ search_token(Get(maps_url), "!2d") = None
    /\ IsFloat(Get(row.latitude)) /\ row.longitude = Some(<<>>)
    /\ Len(records) = 1
    /\ records[1].latitude = None /\ records[1].longitude = None

IsBlank(text) == \A i \in 1..Len(text) : IsSpace(text[i])

\* C5: every record load_csv emits has a name that is non-empty after
\* whitespace collapsing and trimming, and a row whose name is missing,
\* empty or whitespace-only produces no record.
C5_NamesNonEmpty ==
    /\ \A i \in 1..Len(records) : ~IsBlank(records[i].name)
    /\ (rpc = "done" /\ (row.name = None \/ IsBlank(Get(row.name)))) => records = <<>>

\* C5 witness: a row whose name is whitespace only was processed and
\* produced no record.
C5_Witness ==
    /\ rpc = "done" /\ row.name = Some(<<" ", "\t">>) /\ records = <<>>

\* C6: normalize_type returns one of the six categories for every raw token,
\* and so does the type field of every emitted record.
C6_TypeInEnum ==
    /\ Normalized => provider_type \in ProviderTypes
    /\ \A i \in 1..Len(records) : records[i].type \in ProviderTypes

\* C6 witness: a row with a label outside the synonym table was emitted
\* with type OTHER.
C6_Witness ==
    /\ rpc = "done" /\ row.type = Some(<<"hospital">>)
    /\ Len(records) = 1 /\ records[1].type = "OTHER"

\* The category of a token that equals a synonym-table entry when letter
\* case is ignored; None when it equals no entry.
TableCategory(token) ==
    IF Len(token) # 1 THEN None
    ELSE LET ks == {k \in DOMAIN TYPE_MAPPING : upper_chunk(k) = upper_chunk(token[1])}
         IN  IF ks = {} THEN None ELSE Some(TYPE_MAPPING[CHOOSE k \in ks : TRUE])

\* C7 (as claimed): a token equal to a table entry, letter case ignored, maps
\* to that entry's category; every other non-empty token maps to OTHER; an
\* empty or missing token maps to UNKNOWN.
C7_Original ==
    Normalized =>
        IF row.type = None \/ Get(row.type) = <<>> THEN provider_type = "UNKNOWN"
        ELSE IF TableCategory(Get(row.type)) # None
             THEN provider_type = Get(TableCategory(Get(row.type)))
             ELSE provider_type = "OTHER"

\* C7 (amended): the token is trimmed before it is compared: a token whose
\* trimmed text equals a table entry, letter case ignored, maps to that
\* entry's category; every other non-empty token, a whitespace-only one
\* included, maps to OTHER; an empty or missing token maps to UNKNOWN.
C7_Amended ==
    Normalized =>
        IF row.type = None \/ Get(row.type) = <<>> THEN provider_type = "UNKNOWN"
        ELSE IF TableCategory(strip(Get(row.type))) # None
             THEN provider_type = Get(TableCategory(strip(Get(row.type))))
             ELSE provider_type = "OTHER"

\* C7 witness: a mixed-case synonym with surrounding whitespace was mapped
\* to its category.
C7_Witness ==
    /\ rpc = "normalized" /\ row.type = Some(<<" ", "Medical_Service">>)
    /\ provider_type = "CLINIC"

\* The city the priority rules of the claim give.  unknown_rule adds the
\* rule that an empty or missing address yields "Unknown".
PriorityCity(address, hint, unknown_rule) ==
    LET a == IF address = None THEN <<>> ELSE Get(address)
        gaz == {r \in 1..Len(REGIONS) :
                   \E i \in 1..Len(a) : upper_chunk(a[i]) = upper_chunk(REGIONS[r].key)}
        m == search_sheh(a)
    IN  IF hint # None /\ ~IsBlank(Get(hint)) THEN strip(Get(hint))
        ELSE IF unknown_rule /\ a = <<>> THEN <<"Unknown">>
        ELSE IF \E i \in 1..Len(a), d \in 1..Len(BAKU_DISTRICTS) :
                    upper_chunk(a[i]) = upper_chunk(BAKU_DISTRICTS[d])
        THEN <<"Baky">>
        ELSE IF gaz # {}
        THEN <<REGIONS[CHOOSE r \in gaz : \A q \in gaz : r <= q].city>>
        ELSE IF m # None THEN SubSeq(a, Get(m)[1], Get(m)[2])
        ELSE <<"Baky">>

\* C10 (as claimed): the city is decided by the first matching rule of: a
\* non-blank hint (trimmed); a capital-district name in the address; the
\* first matching gazetteer entry; the word preceding "sheh"; the capital.
C10_Original ==
    Normalized => city = PriorityCity(row.address, city_hint_of(config, row), FALSE)

\* C10 (amended): as claimed, with one more rule after the hint rule: an
\* empty or missing address yields "Unknown".
C10_Amended ==
    Normalized => city = PriorityCity(row.address, city_hint_of(config, row), TRUE)

\* C10 witness: an address that holds a gazetteer name and a district name
\* and has no hint was resolved to the capital.
C10_Witness ==
    /\ rpc = "normalized" /\ city_hint_of(config, row) = Some(<<>>)
    /\ row.address = Some(<<"Gence", " ", "Nizami">>)
    /\ city = <<"Baky">>

\* The source supplied no city hint for the row: the column is missing, or
\* its cell is empty or blank.
NoHint == city_hint_of(config, row) = None \/ IsBlank(Get(city_hint_of(config, row)))

\* The address of the row as text ("" when it is missing).
AddressText == IF row.address = None THEN <<>> ELSE Get(row.address)

HasDistrict(a) ==
    \E i \in 1..Len(a), d \in 1..Len(BAKU_DISTRICTS) :
        upper_chunk(a[i]) = upper_chunk(BAKU_DISTRICTS[d])
HasGazetteerKey(a, key) == \E i \in 1..Len(a) : upper_chunk(a[i]) = upper_chunk(key)
HasGazetteerEntry(a) == \E r \in 1..Len(REGIONS) : HasGazetteerKey(a, REGIONS[r].key)

\* The address matches no capital-district name, no gazetteer entry and no
\* "city of X" pattern.
MatchesNothing(a) == ~HasDistrict(a) /\ ~HasGazetteerEntry(a) /\ search_sheh(a) = None

\* C11 (as claimed): a row without a city hint whose address matches no
\* district name, no gazetteer entry and no "city of X" pattern, an empty or
\* missing address included, gets the capital as city and the capital
\* region category.
C11_Original ==
    (Normalized /\ NoHint /\ MatchesNothing(AddressText)) =>
        city = <<"Baky">> /\ region_category = "Baky"

\* C11 (amended): such a row gets the capital as city and the capital region
\* category when its address is non-empty; when its address is empty or
\* missing it gets the city "Unknown" and the regional category.
C11_Amended ==
    (Normalized /\ NoHint /\ MatchesNothing(AddressText)) =>
        IF AddressText = <<>>
        THEN city = <<"Unknown">> /\ region_category = "Region"
        ELSE city = <<"Baky">> /\ region_category = "Baky"

\* C11 witness: a row without a hint whose address names a street and a
\* house number only was given the capital and the capital category.
C11_Witness ==
    /\ rpc = "normalized" /\ NoHint
    /\ row.address = Some(<<"Foo", " ", "12">>)
    /\ city = <<"Baky">> /\ region_category = "Baky"

\* The capital-area set: the capital under its three spellings, Absheron
\* and Xirdalan.
CapitalArea == {<<"Baky">>, <<"Baku">>, <<"Baki">>, <<"Absheron">>, <<"Xirdalan">>}

\* C12: the region category is the capital category iff the city is in the
\* capital-area set, and the regional category otherwise, for the locals of
\* the iteration and for every emitted record.
C12_CategoryFromCity ==
    /\ Normalized =>
          /\ region_category \in {"Baky", "Region"}
          /\ region_category = "Baky" <=> city \in CapitalArea
    /\ \A i \in 1..Len(records) :
          /\ records[i].region_category \in {"Baky", "Region"}
          /\ records[i].region_category = "Baky" <=> records[i].city \in CapitalArea

\* C12 witness: an address in Xirdalan was resolved to the city Absheron
\* through the gazetteer and the record was emitted in the capital category.
C12_Witness ==
    /\ rpc = "done" /\ NoHint
    /\ row.address = Some(<<"Xirdalan_dotted">>)
    /\ Len(records) = 1
    /\ records[1].city = <<"Absheron">> /\ records[1].region_category = "Baky"

\* C13 (as claimed): a row without a city hint whose address contains Gence
\* gets the city Gence and the regional category, whatever else the address
\* contains.
C13_Original ==
    (Normalized /\ NoHint /\ HasGazetteerKey(AddressText, "Gence")) =>
        city = <<"Gence">> /\ region_category = "Region"

\* C13 (amended): a row without a city hint whose address contains Gence,
\* no capital-district name and not Sumqayit (the one gazetteer entry that
\* precedes Gence) gets the city Gence and the regional category.
C13_Amended ==
    (/\ Normalized /\ NoHint /\ HasGazetteerKey(AddressText, "Gence")
     /\ ~HasDistrict(AddressText) /\ ~HasGazetteerKey(AddressText, "Sumqayit")) =>
        city = <<"Gence">> /\ region_category = "Region"

\* C13 witness: an address that names Gence and then Xirdalan, a later
\* gazetteer entry of the capital area, was resolved to Gence and the
\* regional category.
C13_Witness ==
    /\ rpc = "normalized" /\ NoHint
    /\ row.address = Some(<<"Gence", " ", "Xirdalan_dotted">>)
    /\ city = <<"Gence">> /\ region_category = "Region"

IsSeparator(c) == c \in {";", "/"}

\* The text that precedes the first ";" or "/" of a value: the whole value
\* when it holds neither.
BeforeFirstSeparator(text) ==
    LET seps == {i \in 1..Len(text) : IsSeparator(text[i])}
        first == IF seps = {} THEN Len(text) + 1
                 ELSE CHOOSE i \in seps : \A j \in seps : i <= j
    IN  SubSeq(text, 1, first - 1)

\* The raw phone value of the row as text ("" when it is missing).
PhoneText == IF row.phone = None THEN <<>> ELSE Get(row.phone)

\* The parts of the detail text of an Ateshgah card that the adapter takes
\* as phone numbers.
PhoneParts ==
    LET IsPhone(part) == ~has_at(part) /\ search_phone_run(part)
    IN  SelectSeq(detail_parts(details), IsPhone)

\* C14: the phone load_csv computes is the trimmed text before the first
\* ";" or "/" of the raw value and holds neither separator; so does the
\* phone of every emitted record; for a row the Ateshgah adapter wrote from
\* a card with phone numbers it is the trimmed text before the first
\* separator of the first number.
C14_FirstPhone ==
    /\ Normalized =>
          /\ phone = strip(BeforeFirstSeparator(PhoneText))
          /\ \A i \in 1..Len(phone) : ~IsSeparator(phone[i])
          /\ (config.source = "Ateshgah" /\ PhoneParts # <<>>) =>
                 phone = strip(BeforeFirstSeparator(PhoneParts[1]))
    /\ \A i \in 1..Len(records) :
          /\ records[i].phone = strip(BeforeFirstSeparator(PhoneText))
          /\ \A k \in 1..Len(records[i].phone) : ~IsSeparator(records[i].phone[k])

\* C14 witness: a card of Ateshgah listed two phone numbers, the adapter
\* joined them with "; ", and the record was emitted with the first only.
C14_Witness ==
    /\ rpc = "done" /\ config.source = "Ateshgah"
    /\ Len(PhoneParts) = 2 /\ PhoneParts[1] # PhoneParts[2]
    /\ row.phone = Some(PhoneParts[1] \o <<";", " ">> \o PhoneParts[2])
    /\ Len(records) = 1 /\ records[1].phone = PhoneParts[1]

\* The field a part of the detail text belongs to, by the three checks in
\* their order.
PartKind(part) ==
    IF \E i \in 1..Len(part) : part[i] \in {"@", "a@b.az"} THEN "email"
    ELSE IF search_phone_run(part) THEN "phone"
    ELSE "address"

PartsOfKind(kind) ==
    LET IsKind(part) == PartKind(part) = kind
    IN  SelectSeq(detail_parts(details), IsKind)

RECURSIVE JoinWith(_, _)
JoinWith(parts, sep) ==
    IF parts = <<>> THEN <<>>
    ELSE IF Len(parts) = 1 THEN parts[1]
    ELSE parts[1] \o sep \o JoinWith(Tail(parts), sep)

\* An Ateshgah card with a detail text has been turned into a row.
AteshgahExtracted ==
    config.source = "Ateshgah" /\ details # <<>> /\ rpc \in {"row", "normalized", "done"}

\* C23: every non-empty comma-separated part of the detail text goes to one
\* field: the email if it holds '@', else a phone if it holds a run of 7
\* characters of the phone class, else an address fragment.  The address is
\* the fragments joined with ", " in their order, the phone the phone parts
\* joined with "; ", and the email the last part with '@'.
C23_PartsToFields ==
    AteshgahExtracted =>
        LET d == parse_details(details)
            emails == PartsOfKind("email")
        IN  /\ d.address = JoinWith(PartsOfKind("address"), <<",", " ">>)
            /\ d.phone = JoinWith(PartsOfKind("phone"), <<";", " ">>)
            /\ d.email = IF emails = <<>> THEN <<>> ELSE emails[Len(emails)]
            /\ row.address = Some(d.address) /\ row.phone = Some(d.phone)

\* C23 witness: a card had an address fragment and a part that holds both
\* '@' and a run of phone characters; the part became the email.
C23_Witness ==
    /\ AteshgahExtracted
    /\ \E i \in 1..Len(detail_parts(details)) :
          /\ has_at(detail_parts(details)[i])
          /\ search_phone_run(detail_parts(details)[i])
          /\ parse_details(details).email = detail_parts(details)[i]
    /\ row.address # Some(<<>>) /\ row.phone = Some(<<>>)

\* C25: normalize_type returns each of its six outputs unchanged: the type
\* load_csv computed for a row, and the type of every record it emitted, is
\* the type normalize_type computes for it again.
C25_TypeIdempotent ==
    /\ Normalized => normalize_type(Some(<<provider_type>>)) = provider_type
    /\ \A i \in 1..Len(records) :
          normalize_type(Some(<<records[i].type>>)) = records[i].type

\* An AIIC accordion item with paragraphs has been turned into a row.
AiicExtracted ==
    config.source = "AIIC" /\ p_tags # <<>> /\ rpc \in {"row", "normalized", "done"}

\* The paragraphs that read 'Telefon', and the paragraph taken as the phone:
\* the one after the last label that has a paragraph after it (0 if none).
IsLabel(i) == lower(clean_text(p_tags[i])) = <<"telefon">>
PhoneParagraph ==
    LET labels == {i \in 1..(Len(p_tags) - 1) : IsLabel(i)}
    IN  IF labels = {} THEN 0 ELSE (CHOOSE i \in labels : \A j \in labels : j <= i) + 1
AddressParagraphs ==
    {i \in 1..Len(p_tags) :
        clean_text(p_tags[i]) # <<>> /\ ~IsLabel(i) /\ i # PhoneParagraph}

AGroupFetched == config.source = "A-Group" /\ rpc \in {"row", "normalized", "done"}

Parses(cell) == Truthy(cell) /\ IsFloat(Get(cell))

\* The number formed by the first two digits of |v|.
TwoDigitPrefix(v) ==
    LET a == IF v < 0 THEN -v ELSE v
    IN  IF a >= 10000000 THEN a \div 1000000
        ELSE IF a >= 1000000 THEN a \div 100000
        ELSE a \div 10000

\* C15 (as claimed): for two raw values that both parse as floats,
\* normalize_coordinates returns them exchanged when the first two digits of
\* the absolute value of the first form a number greater than 42 and in
\* their original order otherwise; it returns an empty pair only when a
\* value is missing or does not parse.
C15_SwapByPrefix ==
    AGroupFetched =>
        LET out == <<Get(row.latitude), Get(row.longitude)>>
        IN  IF Parses(location_x) /\ Parses(location_y)
            THEN LET x == float(Get(location_x))
                     y == float(Get(location_y))
                 IN  IF TwoDigitPrefix(x) > 42
                     THEN out = <<str_float(y), str_float(x)>>
                     ELSE out = <<str_float(x), str_float(y)>>
            ELSE out = <<<<>>, <<>>>>

\* normalize_coordinates exchanged the two values of the item.
AGroupSwapped ==
    /\ AGroupFetched /\ Parses(location_x) /\ Parses(location_y)
    /\ float(Get(location_x)) # float(Get(location_y))
    /\ row.latitude = Some(str_float(float(Get(location_y))))
    /\ row.longitude = Some(str_float(float(Get(location_x))))

\* parse_coordinates exchanged the two values of the row.
CombineSwapped ==
    /\ Normalized /\ Parses(row.latitude) /\ Parses(row.longitude)
    /\ float(Get(row.latitude)) # float(Get(row.longitude))
    /\ latitude = Some(float(Get(row.longitude)))
    /\ longitude = Some(float(Get(row.latitude)))

\* C16 (as claimed): whenever normalize_coordinates or parse_coordinates
\* exchanges the two values, the pair it returns has its latitude in [38,42]
\* and its longitude in [44,52].  (A pair it returns absent was not
\* exchanged.)
C16_SwapInBox ==
    /\ AGroupSwapped =>
           InBounds(float(Get(row.latitude)), float(Get(row.longitude)))
    /\ CombineSwapped => InBounds(Get(latitude), Get(longitude))


----------------------------------------------------------------------------
(* deduplicate_records applied to a list of records that load_csv emits,   *)
(* and then to its own output.                                             *)

DedupNames == {<<"Clinic", " ", "X">>, <<"clinic", " ", "X">>, <<"X">>}
DedupCoords == {<<<<>>, <<>>>>, <<<<"40.38">>, <<"49.86">>>>,
                <<<<"40.38004">>, <<"49.86003">>>>, <<<<"40.3802">>, <<"49.86">>>>}

DedupRows ==
    {[DefaultRow EXCEPT !.name = Some(n), !.address = Some(<<"Foo">>),
                        !.latitude = Some(c[1]), !.longitude = Some(c[2])] :
        n \in DedupNames, c \in DedupCoords}
    \cup
    {[DefaultRow EXCEPT !.name = Some(<<"Clinic", " ", "X">>), !.address = Some(<<"Bar">>),
                        !.phone = Some(<<"055">>),
                        !.latitude = Some(c[1]), !.longitude = Some(c[2])] :
        c \in DedupCoords}
    \cup
    {[DefaultRow EXCEPT !.name = Some(<<"X">>), !.address = Some(<<"Bar">>),
                        !.latitude = Some(<<"0">>), !.longitude = Some(<<"0">>)]}

\* The records load_csv emits for these rows.
DedupRecords == UNION {Range(load_row(SOURCE_FILES[1], r)) : r \in DedupRows}

NoResult == [unique_records |-> <<>>, duplicates |-> 0]

InitDedup ==
    /\ MainIdle /\ RowIdle /\ XmlIdle /\ FetchIdle /\ AdapterIdle
    /\ dpc = "start"
    /\ d_records \in SeqUpTo(DedupRecords, MaxDedupLen)
    /\ d_first = NoResult /\ d_second = NoResult

dedup_first ==
    /\ dpc = "start"
    /\ d_first' = deduplicate_records(d_records)
    /\ dpc' = "once"
    /\ UNCHANGED <<d_records, d_second, main_vars, row_vars, xml_vars, fetch_vars, adapter_vars>>

dedup_second ==
    /\ dpc = "once"
    /\ d_second' = deduplicate_records(d_first.unique_records)
    /\ dpc' = "twice"
    /\ UNCHANGED <<d_records, d_first, main_vars, row_vars, xml_vars, fetch_vars, adapter_vars>>

NextDedup == dedup_first \/ dedup_second

SpecDedup == InitDedup /\ [][NextDedup]_vars

Deduplicated == dpc \in {"once", "twice"}

\* The positions of the records that are the first of the input with their key.
FirstPositions(recs) ==
    {j \in 1..Len(recs) : \A i \in 1..(j - 1) : dedup_key(recs[i]) # dedup_key(recs[j])}

KthSmallest(S, k) == CHOOSE x \in S : Cardinality({y \in S : y <= x}) = k

\* C1: deduplicate_records returns exactly one record per identity key; the
\* k-th record returned is the k-th input record that is the first with its
\* key, with every field unchanged; the count is the number of records dropped.
C1_FirstWins ==
    Deduplicated =>
        LET out == d_first.unique_records
        IN  /\ Len(out) = Cardinality({dedup_key(d_records[i]) : i \in 1..Len(d_records)})
            /\ \A k \in 1..Len(out) :
                  out[k] = d_records[KthSmallest(FirstPositions(d_records), k)]
            /\ d_first.duplicates = Len(d_records) - Len(out)

\* C1 witness: the third record repeats the key of the first with other
\* fields, the second has another key; the first two records were returned.
C1_Witness ==
    /\ dpc = "once" /\ Len(d_records) = 3
    /\ dedup_key(d_records[3]) = dedup_key(d_records[1])
    /\ d_records[3] # d_records[1]
    /\ dedup_key(d_records[2]) # dedup_key(d_records[1])
    /\ d_first.unique_records = <<d_records[1], d_records[2]>>
    /\ d_first.duplicates = 1

\* The list that keeps a record iff no earlier record of the input is the
\* same provider.
KeepFirsts(recs, Same(_, _)) ==
    LET keep == {j \in 1..Len(recs) : ~\E i \in 1..(j - 1) : Same(recs[i], recs[j])}
    IN  [k \in 1..Cardinality(keep) |-> recs[KthSmallest(keep, k)]]

SameName(a, b) == strip(lower(a.name)) = strip(lower(b.name))
HasCoordinates(r) == r.latitude # None /\ r.longitude # None

\* C2 (as claimed): same name, and either both have coordinates that are
\* equal when rounded to 4 places, or both lack coordinates and have the
\* same trimmed address.
SameProviderClaimed(a, b) ==
    /\ SameName(a, b)
    /\ \/ /\ HasCoordinates(a) /\ HasCoordinates(b)
          /\ round4(Get(a.latitude)) = round4(Get(b.latitude))
          /\ round4(Get(a.longitude)) = round4(Get(b.longitude))
       \/ /\ ~HasCoordinates(a) /\ ~HasCoordinates(b)
          /\ strip(a.address) = strip(b.address)

C2_Original ==
    Deduplicated => d_first.unique_records = KeepFirsts(d_records, SameProviderClaimed)

\* A coordinate counts as absent when it is absent or 0.
CoordinateAbsent(c) == c = None \/ Get(c) = 0
SameCoordinate(x, y) ==
    \/ CoordinateAbsent(x) /\ CoordinateAbsent(y)
    \/ /\ ~CoordinateAbsent(x) /\ ~CoordinateAbsent(y)
       /\ round4(Get(x)) = round4(Get(y))

\* C2 (amended): two records are the same provider iff their lower-cased,
\* trimmed names are equal and their latitudes and their longitudes agree,
\* where two coordinates agree when both are absent or 0, or both are present
\* and equal when rounded to 4 places.  Addresses are not compared: two
\* coordinate-less records with the same name are the same provider.
SameProviderAmended(a, b) ==
    /\ SameName(a, b)
    /\ SameCoordinate(a.latitude, b.latitude)
    /\ SameCoordinate(a.longitude, b.longitude)

C2_Amended ==
    Deduplicated => d_first.unique_records = KeepFirsts(d_records, SameProviderAmended)

\* C2 witness: two coordinate-less records with the same name and different
\* addresses were collapsed into the first.
C2_Witness ==
    /\ dpc = "once" /\ Len(d_records) = 2
    /\ SameName(d_records[1], d_records[2])
    /\ ~HasCoordinates(d_records[1]) /\ ~HasCoordinates(d_records[2])
    /\ strip(d_records[1].address) # strip(d_records[2].address)
    /\ d_first.unique_records = <<d_records[1]>>

\* C8: deduplicate_records applied to its own output returns the same
\* sequence and a duplicate count of 0.
C8_Idempotent ==
    dpc = "twice" =>
        /\ d_second.unique_records = d_first.unique_records
        /\ d_second.duplicates = 0

\* C8 witness: the first call removed a duplicate and kept two records, and
\* the second call has run on its output.
C8_Witness ==
    /\ dpc = "twice" /\ d_first.duplicates > 0
    /\ Len(d_first.unique_records) = 2
    /\ d_second.unique_records = d_first.unique_records


----------------------------------------------------------------------------
(* combine.main: load every source file, deduplicate, save.                *)

\* The rows a source file may hold.
PipelineRows == {
    [DefaultRow EXCEPT !.name = Some(<<"Clinic", " ", "X">>), !.phone = Some(<<"012">>),
                       !.latitude = Some(<<"40.38">>), !.longitude = Some(<<"49.86">>)],
    [DefaultRow EXCEPT !.name = Some(<<"clinic", "\t", "X", " ">>),
                       !.type = Some(<<"dental_clinic">>), !.phone = Some(<<"055">>),
                       !.latitude = Some(<<"40.38004">>), !.longitude = Some(<<"49.86003">>)],
    [DefaultRow EXCEPT !.name = Some(<<"Clinic", " ", "X">>),
                       !.address = Some(<<"Foo", ",", " ", "\"", "Bar", "\"", "\n", "Foo">>)],
    [DefaultRow EXCEPT !.name = Some(<<"Clinic", " ", "X">>), !.address = Some(<<"Gence">>),
                       !.city = Some(<<"Quba">>)],
    [DefaultRow EXCEPT !.name = Some(<<" ">>), !.address = Some(<<"Foo">>)],
    [DefaultRow EXCEPT !.name = Some(<<"X">>), !.type = Some(<<"hospital">>),
                       !.latitude = Some(<<"49.86">>), !.longitude = Some(<<"40.38">>)] }

\* What a source file may be: missing (None) or a sequence of rows.
SourceFiles(max_rows) == OptionalText(SeqUpTo(PipelineRows, max_rows))

Init ==
    /\ pc = "load" /\ src_idx = 1 /\ MainLocalsUnset
    /\ data_dir = [i \in 1..Len(SOURCE_FILES) |-> AnyFile]
    /\ RowIdle /\ DedupIdle /\ XmlIdle /\ FetchIdle /\ AdapterIdle

\* The files the source file at this index may be: the one DATA_DIR is known
\* to hold, or any file, with at most MaxLoaded rows read by a run.
FilesAt(idx) ==
    IF data_dir[idx].known THEN {data_dir[idx].file}
    ELSE SourceFiles(MaxLoaded - Len(all_records))

\* One iteration of the loop over SOURCE_FILES (lines 317-323).
main_load ==
    /\ pc = "load"
    /\ \E file \in FilesAt(src_idx) :
          /\ loaded' = [loaded EXCEPT ![src_idx] = load_csv(file, SOURCE_FILES[src_idx])]
          /\ all_records' = all_records \o load_csv(file, SOURCE_FILES[src_idx])
    /\ src_idx' = src_idx + 1
    /\ pc' = IF src_idx = Len(SOURCE_FILES) THEN "dedup" ELSE "load"
    /\ UNCHANGED <<unique_records, duplicates, source_counts, type_counts, region_counts,
                   combined, data_dir, row_vars, dedup_vars, xml_vars, fetch_vars, adapter_vars>>

\* Lines 329-331.
main_dedup ==
    /\ pc = "dedup"
    /\ unique_records' = deduplicate_records(all_records).unique_records
    /\ duplicates' = deduplicate_records(all_records).duplicates
    /\ pc' = "report"
    /\ UNCHANGED <<src_idx, loaded, all_records, source_counts, type_counts, region_counts,
                   combined, data_dir, row_vars, dedup_vars, xml_vars, fetch_vars, adapter_vars>>

\* Lines 333-361: the three summaries.
main_report ==
    /\ pc = "report"
    /\ source_counts' = count_by(unique_records, "source")
    /\ type_counts' = count_by(unique_records, "type")
    /\ region_counts' = count_by(unique_records, "region_category")
    /\ pc' = "save"
    /\ UNCHANGED <<src_idx, loaded, all_records, unique_records, duplicates, combined,
                   data_dir, row_vars, dedup_vars, xml_vars, fetch_vars, adapter_vars>>

\* Line 365.
main_save ==
    /\ pc = "save"
    /\ combined' = Some(save_combined_csv(unique_records))
    /\ pc' = "done"
    /\ UNCHANGED <<src_idx, loaded, all_records, unique_records, duplicates,
                   source_counts, type_counts, region_counts, data_dir,
                   row_vars, dedup_vars, xml_vars, fetch_vars, adapter_vars>>

Next == main_load \/ main_dedup \/ main_report \/ main_save

Spec == Init /\ [][Next]_vars

\* The position of a source in the order the claim states.
SourceOrder == <<"Pasha Insurance", "AIIC", "Ateshgah", "Meqa Sigorta", "A-Group">>
SourceRank(src) == CHOOSE i \in 1..Len(SourceOrder) : SourceOrder[i] = src

\* The list load_csv returned for a source.
LoadedFrom(src) ==
    LET hits == {i \in 1..Len(loaded) :
                    \E k \in 1..Len(loaded[i]) : loaded[i][k].source = src}
    IN  IF hits = {} THEN <<>> ELSE loaded[CHOOSE i \in hits : TRUE]

\* C9: the combiner concatenates the per-source lists in the order Pasha
\* Insurance, AIIC, Ateshgah, Meqa Sigorta, A-Group and deduplicates the
\* concatenation once; of the records that share an identity key the one
\* that survives comes from the earliest source in that order and is the
\* earliest such row of that source.
C9_SourceOrder ==
    pc \in {"save", "done"} =>
        /\ all_records = LoadedFrom("Pasha Insurance") \o LoadedFrom("AIIC")
                         \o LoadedFrom("Ateshgah") \o LoadedFrom("Meqa Sigorta")
                         \o LoadedFrom("A-Group")
        /\ Len(unique_records) =
              Cardinality({dedup_key(all_records[i]) : i \in 1..Len(all_records)})
        /\ \A u \in 1..Len(unique_records) :
              LET rec == unique_records[u]
                  own == LoadedFrom(rec.source)
              IN  /\ \A i \in 1..Len(all_records) :
                        dedup_key(all_records[i]) = dedup_key(rec)
                        => SourceRank(rec.source) <= SourceRank(all_records[i].source)
                  /\ \E k \in 1..Len(own) :
                        /\ own[k] = rec
                        /\ \A j \in 1..(k - 1) : dedup_key(own[j]) # dedup_key(rec)

\* C9 witness: AIIC and A-Group both hold a record with the same key and
\* different fields, Pasha Insurance holds none, and the AIIC record is the
\* one written to the combined file.
C9_Witness ==
    /\ pc = "done"
    /\ Len(loaded[1]) = 0 /\ Len(loaded[2]) = 1 /\ Len(loaded[5]) = 1
    /\ loaded[2][1].source = "AIIC" /\ loaded[5][1].source = "A-Group"
    /\ dedup_key(loaded[2][1]) = dedup_key(loaded[5][1])
    /\ loaded[2][1].phone # loaded[5][1].phone
    /\ unique_records = <<loaded[2][1]>>
    /\ duplicates = 1
    /\ Len(Get(combined)) = 1

RECURSIVE SumCounts(_)
SumCounts(counts) == IF counts = <<>> THEN 0 ELSE Head(counts).count + SumCounts(Tail(counts))

\* The counters hold, for every value of the field among the records, the
\* number of records with that value, and no other key.
CountsOf(counts, recs, field) ==
    /\ {counts[i].key : i \in 1..Len(counts)} = {recs[k][field] : k \in 1..Len(recs)}
    /\ \A i \in 1..Len(counts) :
          counts[i].count = Cardinality({k \in 1..Len(recs) : recs[k][field] = counts[i].key})

\* C20: once main() has reported, total loaded = unique records + duplicates
\* removed; the counts by source, by type and by region category each sum
\* to the number of unique records (each counter being the number of unique
\* records with its key); the unique records are still the output of the
\* deduplicator; and the rows written to the sink are these records, one row
\* per record, in the same order.
C20_Counters ==
    pc \in {"save", "done"} =>
        LET out == deduplicate_records(all_records).unique_records
        IN  /\ Len(all_records) = Len(unique_records) + duplicates
            /\ SumCounts(source_counts) = Len(unique_records)
            /\ SumCounts(type_counts) = Len(unique_records)
            /\ SumCounts(region_counts) = Len(unique_records)
            /\ CountsOf(source_counts, unique_records, "source")
            /\ CountsOf(type_counts, unique_records, "type")
            /\ CountsOf(region_counts, unique_records, "region_category")
            /\ unique_records = out
            /\ pc = "done" =>
                  /\ combined # None
                  /\ Len(Get(combined)) = Len(out)
                  /\ \A i \in 1..Len(out) :
                        LET written == Get(combined)[i]
                        IN  /\ written.name = out[i].name
                            /\ written.type = <<out[i].type>>
                            /\ written.address = out[i].address
                            /\ written.phone = out[i].phone
                            /\ written.city = out[i].city
                            /\ written.region_category = <<out[i].region_category>>
                            /\ written.source = <<out[i].source>>
                            /\ written.latitude = <<>> <=> out[i].latitude = None
                            /\ written.longitude = <<>> <=> out[i].longitude = None

\* C20 witness: three records of one source were loaded, one of them a
\* duplicate; the two unique records are counted under one source and two
\* types, and two rows were written.
C20_Witness ==
    /\ pc = "done" /\ Len(all_records) = 3 /\ duplicates = 1
    /\ Len(unique_records) = 2
    /\ Len(source_counts) = 1 /\ source_counts[1].count = 2
    /\ Len(type_counts) = 2
    /\ Len(Get(combined)) = 2

\* The tuple a row read back stands for: an empty coordinate cell is an
\* absent coordinate, any other cell is the number its text denotes.
CellWord(cell) == IF Len(cell) = 1 THEN cell[1] ELSE ""
read_coord(cell) ==
    IF cell = <<>> THEN None
    ELSE IF IsFloat(cell) THEN Some(float(cell)) ELSE Some("not a number")
read_record(d) ==
    [name |-> Get(d.name), type |-> CellWord(Get(d.type)), address |-> Get(d.address),
     phone |-> Get(d.phone), latitude |-> read_coord(Get(d.latitude)),
     longitude |-> read_coord(Get(d.longitude)), city |-> Get(d.city),
     region_category |-> CellWord(Get(d.region_category)),
     source |-> CellWord(Get(d.source))]
CoordCellOf(cell, coord) ==
    IF coord = None THEN cell = <<>>
    ELSE cell # <<>> /\ IsFloat(cell) /\ float(cell) = Get(coord)

\* C21: the file save_combined_csv writes, read back, holds the same set of
\* (name, type, address, phone, latitude, longitude, city, region_category,
\* source) tuples as the collection written; an absent coordinate is an
\* empty cell and a present one is decimal text.
C21_RoundTrip ==
    pc = "done" =>
        LET back == read_combined(Get(combined))
        IN  /\ \A i \in 1..Len(back) :
                  /\ DOMAIN back[i] = {CSV_FIELDNAMES[k] : k \in 1..Len(CSV_FIELDNAMES)}
                  /\ \A k \in DOMAIN back[i] : back[i][k] # None
            /\ {read_record(back[i]) : i \in 1..Len(back)}
                  = {unique_records[i] : i \in 1..Len(unique_records)}
            /\ \A i \in 1..Len(unique_records) :
                  /\ CoordCellOf(Get(combined)[i].latitude, unique_records[i].latitude)
                  /\ CoordCellOf(Get(combined)[i].longitude, unique_records[i].longitude)

\* A collection was written in which one record has an address with a comma,
\* quotes and a line break and no coordinates, and another has coordinates.
C21_Witness ==
    /\ pc = "done" /\ Len(unique_records) >= 2
    /\ \E i, j \in 1..Len(unique_records) :
          /\ needs_quotes(unique_records[i].address)
          /\ \E k \in 1..Len(unique_records[i].address) : unique_records[i].address[k] = "\""
          /\ unique_records[i].latitude = None
          /\ unique_records[j].latitude # None
    /\ Len(read_combined(Get(combined))) = Len(unique_records)


----------------------------------------------------------------------------
(* a_group.fetch_xml_hospitals: the list request, then one detail request  *)
(* per hospital block.                                                     *)

\* The hospital blocks of the list response, as parse_xml_value reads them:
\* a tag that is absent reads as "".
XmlBlocks == {
    [CUSTOMER_ID |-> <<"7">>, NAME |-> <<"Clinic", " ", "X">>, NAME_AZ |-> <<>>,
     NAME_EN |-> <<>>, LOCATION_X |-> <<"40.38">>, LOCATION_Y |-> <<"49.86">>],
    [CUSTOMER_ID |-> <<"8">>, NAME |-> <<>>, NAME_AZ |-> <<"X">>,
     NAME_EN |-> <<"Y">>, LOCATION_X |-> <<"49.86">>, LOCATION_Y |-> <<"40.38">>],
    [CUSTOMER_ID |-> <<>>, NAME |-> <<"X">>, NAME_AZ |-> <<>>,
     NAME_EN |-> <<>>, LOCATION_X |-> <<>>, LOCATION_Y |-> <<>>] }

\* The answers to the list request.
XmlResponses(max_blocks) ==
    {Failure(k) : k \in RequestExceptions} \cup {Ok(b) : b \in SeqUpTo(XmlBlocks, max_blocks)}

\* The outcomes the detail request of a block may have: the request is made
\* only for a block with a customer id.
OutcomesFor(block) == IF block.CUSTOMER_ID # <<>> THEN DetailOutcomes ELSE {"none"}

InitXml ==
    /\ MainIdle /\ RowIdle /\ DedupIdle /\ FetchIdle /\ AdapterIdle
    /\ x_pc = "list"
    /\ list_response \in XmlResponses(MaxBlocks)
    /\ hospital_blocks = <<>> /\ detail_outcomes = <<>> /\ x_records = <<>>

\* Lines 158-177: the list request and the blocks of its answer.
xml_fetch_list ==
    /\ x_pc = "list"
    /\ IF list_response.kind \in RequestExceptions
       THEN x_pc' = "done" /\ UNCHANGED hospital_blocks
       ELSE /\ hospital_blocks' = list_response.body
            /\ x_pc' = IF list_response.body = <<>> THEN "done" ELSE "items"
    /\ UNCHANGED <<list_response, detail_outcomes, x_records>>
    /\ UNCHANGED <<main_vars, row_vars, dedup_vars, fetch_vars, adapter_vars>>

\* Lines 179-223: one iteration of the loop over the blocks, with its
\* detail request.
xml_fetch_item ==
    /\ x_pc = "items"
    /\ LET idx == Len(x_records) + 1
           block == hospital_blocks[idx]
       IN  /\ \E outcome \in OutcomesFor(block) :
                 /\ x_records' = Append(x_records, hospital_record(block, "CLINIC", outcome))
                 /\ detail_outcomes' = Append(detail_outcomes, outcome)
           /\ x_pc' = IF idx = Len(hospital_blocks) THEN "done" ELSE "items"
    /\ UNCHANGED <<list_response, hospital_blocks>>
    /\ UNCHANGED <<main_vars, row_vars, dedup_vars, fetch_vars, adapter_vars>>

NextXml == xml_fetch_list \/ xml_fetch_item

SpecXml == InitXml /\ [][NextXml]_vars

DetailFailed(outcome) == outcome \in {"not_ok", "ConnectionError", "Timeout"}

\* The records the function returns when every detail request made succeeds.
AllSucceed ==
    fetch_xml_hospitals(API_ENDPOINTS[4], list_response,
                        [i \in 1..Len(list_response.body) |-> "ok"])

\* C17: whatever the outcomes of the detail requests, the function returns
\* one record per hospital block of the list response; the record of a
\* failed detail request has an empty address and an empty phone; the name,
\* the id and the coordinates of every record, and the address and the phone
\* of every record whose detail request did not fail, are those of the run
\* in which no detail request fails.
C17_DetailFailures ==
    /\ (x_pc = "done" /\ list_response.kind = "ok") =>
           Len(x_records) = Len(list_response.body)
    /\ \A k \in 1..Len(x_records) :
          /\ x_records[k].name = AllSucceed[k].name
          /\ x_records[k].customer_id = AllSucceed[k].customer_id
          /\ x_records[k].latitude = AllSucceed[k].latitude
          /\ x_records[k].longitude = AllSucceed[k].longitude
          /\ x_records[k].type = AllSucceed[k].type
          /\ IF DetailFailed(detail_outcomes[k])
             THEN x_records[k].address = <<>> /\ x_records[k].phone = <<>>
             ELSE /\ x_records[k].address = AllSucceed[k].address
                  /\ x_records[k].phone = AllSucceed[k].phone

\* C17 witness: of three blocks the detail request of the first got an
\* error status and that of the second timed out; three records were
\* returned, the first two without address, the third with its own.
C17_Witness ==
    /\ x_pc = "done" /\ Len(hospital_blocks) = 3 /\ Len(x_records) = 3
    /\ detail_outcomes = <<"not_ok", "Timeout", "ok">>
    /\ hospital_blocks[1].CUSTOMER_ID = <<"7">>
    /\ x_records[1].address = <<>> /\ x_records[1].phone = <<>>
    /\ x_records[2].address = <<>>
    /\ x_records[3].address = <<"Foo">> /\ x_records[3].phone = <<"012">>
    /\ x_records[1].name = x_records[3].name


----------------------------------------------------------------------------
(* Runs of a_group.main, one after the other, followed by a run of         *)
(* combine.main on the files of DATA_DIR.                                  *)

\* The items of the answer of a JSON endpoint; the fields of the nested
\* details object are written next to the others.
JsonItems == {
    [NAME |-> <<"Clinic", " ", "X">>, CUSTOMER_ID |-> <<"7">>,
     LOCATION_X |-> Some(<<"40.38">>), LOCATION_Y |-> Some(<<"49.86">>),
     WORK_ADR_FULL |-> <<"Foo">>, WORK_PHONE |-> <<"012">>] }

FetchBlocks == {b \in XmlBlocks : b.CUSTOMER_ID = <<"8">>}

\* The answers an endpoint may give to the request of a run.
ResponsesOf(endpoint_config) ==
    IF endpoint_config.format = "json"
    THEN {Failure(k) : k \in RequestExceptions \cup JSONDecodeErrors}
         \cup {Ok(b) : b \in SeqUpTo(JsonItems, MaxItems)}
    ELSE {Failure(k) : k \in RequestExceptions}
         \cup {Ok(b) : b \in SeqUpTo(FetchBlocks, MaxItems)}

\* The outcomes of the detail requests that follow an answer.
OutcomeLists(endpoint_config, resp) ==
    IF endpoint_config.format = "json" THEN {<<>>}
    ELSE [1..Len(resp.body) -> DetailOutcomes]

\* The files of the other sources.
PashaRow ==
    [DefaultRow EXCEPT !.name = Some(<<"Clinic", " ", "X">>), !.phone = Some(<<"055">>),
                       !.latitude = Some(<<"40.38">>), !.longitude = Some(<<"49.86">>)]
AteshgahRow ==
    [DefaultRow EXCEPT !.name = Some(<<"X">>), !.type = Some(<<"hospital">>)]

InitFetch ==
    /\ pc = "idle" /\ src_idx = 0 /\ MainLocalsUnset
    /\ \E pasha \in {None, Some(<<PashaRow>>)} :
          data_dir = <<KnownFile(pasha), KnownFile(None), KnownFile(Some(<<AteshgahRow>>)),
                       KnownFile(None), KnownFile(None)>>
    /\ RowIdle /\ DedupIdle /\ XmlIdle /\ AdapterIdle
    /\ f_pc = "start" /\ run = 0 /\ f_log = <<>> /\ FetchLocalsUnset

\* a_group.main, lines 253-262; at most MaxRuns runs are started.
agroup_main_start ==
    /\ f_pc \in {"start", "finished"} /\ run < MaxRuns
    /\ run' = run + 1
    /\ endpoint_idx' = 1 /\ response' = NoResponse /\ f_log' = <<>>
    /\ f_all_records' = <<>> /\ f_unique_records' = <<>>
    /\ f_pc' = "endpoint"
    /\ UNCHANGED <<main_vars, row_vars, dedup_vars, xml_vars, adapter_vars>>

\* Mutant: a failed request ends the run.
agroup_fetch_endpoint_aborts ==
    /\ f_pc = "endpoint"
    /\ LET cfg == API_ENDPOINTS[endpoint_idx]
       IN  \E resp \in ResponsesOf(cfg) : \E outcomes \in OutcomeLists(cfg, resp) :
             LET recs == IF cfg.format = "json" THEN fetch_json_api(cfg, resp)
                         ELSE fetch_xml_hospitals(cfg, resp, outcomes)
             IN  /\ response' = resp
                 /\ f_all_records' = f_all_records \o recs
                 /\ f_log' = Append(f_log, [endpoint |-> cfg.name,
                                            error |-> resp.kind # "ok", found |-> Len(recs)])
                 /\ f_pc' = IF resp.kind # "ok" THEN "finished"
                            ELSE IF endpoint_idx = Len(API_ENDPOINTS) THEN "dedup"
                            ELSE "endpoint"
    /\ endpoint_idx' = endpoint_idx + 1
    /\ UNCHANGED <<run, f_unique_records, main_vars, row_vars, dedup_vars, xml_vars, adapter_vars>>

\* One iteration of the loop over API_ENDPOINTS (lines 264-273): the request,
\* the records made of its answer, and the lines printed.
agroup_fetch_endpoint ==
    /\ f_pc = "endpoint"
    /\ LET cfg == API_ENDPOINTS[endpoint_idx]
       IN  \E resp \in ResponsesOf(cfg) : \E outcomes \in OutcomeLists(cfg, resp) :
             LET recs == IF cfg.format = "json" THEN fetch_json_api(cfg, resp)
                         ELSE fetch_xml_hospitals(cfg, resp, outcomes)
             IN  /\ response' = resp
                 /\ f_all_records' = f_all_records \o recs
                 /\ f_log' = Append(f_log, [endpoint |-> cfg.name,
                                            error |-> resp.kind # "ok", found |-> Len(recs)])
    /\ endpoint_idx' = endpoint_idx + 1
    /\ f_pc' = IF endpoint_idx = Len(API_ENDPOINTS) THEN "dedup" ELSE "endpoint"
    /\ UNCHANGED <<run, f_unique_records, main_vars, row_vars, dedup_vars, xml_vars, adapter_vars>>

\* Lines 277-291.
agroup_main_dedup ==
    /\ f_pc = "dedup"
    /\ f_unique_records' = agroup_unique({}, f_all_records)
    /\ f_pc' = "save"
    /\ UNCHANGED <<run, endpoint_idx, response, f_log, f_all_records>>
    /\ UNCHANGED <<main_vars, row_vars, dedup_vars, xml_vars, adapter_vars>>

\* Lines 294-299: save_to_csv(unique_records, "a_group.csv").
agroup_main_save ==
    /\ f_pc = "save"
    /\ data_dir' = [data_dir EXCEPT ![5] = KnownFile(save_to_csv(f_unique_records, @.file))]
    /\ f_pc' = "finished"
    /\ UNCHANGED <<run, endpoint_idx, response, f_log, f_all_records, f_unique_records>>
    /\ UNCHANGED <<pc, src_idx, loaded, all_records, unique_records, duplicates,
                   source_counts, type_counts, region_counts, combined>>
    /\ UNCHANGED <<row_vars, dedup_vars, xml_vars, adapter_vars>>

\* combine.main is started (lines 304-314) when no run of the fetcher is in
\* progress; the fetcher has exited and only what it printed remains.
combine_start ==
    /\ f_pc \in {"start", "finished"} /\ pc = "idle"
    /\ pc' = "load" /\ src_idx' = 1
    /\ f_pc' = "exited"
    /\ endpoint_idx' = 0 /\ response' = NoResponse
    /\ f_all_records' = <<>> /\ f_unique_records' = <<>>
    /\ UNCHANGED <<run, f_log>>
    /\ UNCHANGED <<loaded, all_records, unique_records, duplicates, source_counts,
                   type_counts, region_counts, combined, data_dir>>
    /\ UNCHANGED <<row_vars, dedup_vars, xml_vars, adapter_vars>>

NextFetch ==
    \/ agroup_main_start \/ agroup_fetch_endpoint \/ agroup_main_dedup \/ agroup_main_save
    \/ combine_start \/ main_load \/ main_dedup \/ main_report \/ main_save

SpecFetch == InitFetch /\ [][NextFetch]_vars

\* What the fetcher printed about its requests.
RECURSIVE FoundSum(_)
FoundSum(entries) ==
    IF entries = <<>> THEN 0 ELSE entries[1].found + FoundSum(Tail(entries))

FetcherRunning == f_pc \in {"endpoint", "dedup", "save"}
FetcherPastLoop == f_pc \in {"dedup", "save", "finished"}
CombinerRunning == pc \in {"load", "dedup", "report", "save"}
SourcesLoaded == IF pc = "load" THEN src_idx - 1 ELSE IF pc = "idle" THEN 0 ELSE Len(SOURCE_FILES)

C19_EmptyRunEmptySource ==
    (/\ SourcesLoaded = Len(SOURCE_FILES) /\ run >= 1
     /\ Len(f_log) = Len(API_ENDPOINTS)
     /\ \A i \in 1..Len(f_log) : f_log[i].error /\ f_log[i].found = 0)
        => loaded[5] = <<>>


----------------------------------------------------------------------------
(* meqa_sigorta.py: the records of one page and their working hours.       *)

\* The page as the regular expressions of the adapter see it.  med_points
\* is the sequence of objects of the medPoints literal (None without a
\* literal); each object is reduced to its title, lat and lng.  The markup
\* of the cards is a sequence of tokens: the data-marker-index attribute
\* with its number, a med-point-title heading with a non-empty text, the
\* hours label with its span, and any other markup.
IndexToken(k) == [tag |-> "index", value |-> k]
TitleToken(t) == [tag |-> "title", value |-> t]
HoursToken(h) == [tag |-> "hours", value |-> h]
MarkupToken == [tag |-> "markup", value |-> <<>>]

\* The markup of a card: "adjacent" has the hours label right after the
\* closing tag of the title, "apart" has other markup between them, "none"
\* lists no hours.
card_tokens(card) ==
    <<IndexToken(card.index)>>
    \o (IF card.title = None THEN <<>> ELSE <<TitleToken(Get(card.title))>>)
    \o (CASE card.layout = "adjacent" -> <<HoursToken(card.hours)>>
          [] card.layout = "apart" -> <<MarkupToken, HoursToken(card.hours)>>
          [] OTHER -> <<MarkupToken>>)

RECURSIVE page_tokens(_)
page_tokens(cards) ==
    IF cards = <<>> THEN <<>> ELSE card_tokens(Head(cards)) \o page_tokens(Tail(cards))

\* extract_med_points (lines 71-119): the objects that have a title.
RECURSIVE titled_points(_)
titled_points(objects) ==
    IF objects = <<>> THEN <<>>
    ELSE (IF Head(objects).title # <<>> THEN <<Head(objects)>> ELSE <<>>)
         \o titled_points(Tail(objects))

extract_med_points(page) ==
    IF page.med_points = None THEN <<>> ELSE titled_points(Get(page.med_points))

\* The first position from i on that holds a token of this tag; 0 if none.
NextToken(tokens, tag, i) ==
    IF \E j \in i..Len(tokens) : tokens[j].tag = tag
    THEN CHOOSE j \in i..Len(tokens) :
            /\ tokens[j].tag = tag
            /\ \A l \in i..(j - 1) : tokens[l].tag # tag
    ELSE 0

\* re.finditer(card_pattern, html_content, re.DOTALL), lines 129-134: a
\* match starts at an index attribute, runs lazily to the nearest title
\* after it and takes the hours only when the label follows the title at
\* once, for the lazy ".*?" before the optional group matches nothing.
RECURSIVE hours_scan(_, _, _)
hours_scan(tokens, i, hours_map) ==
    LET at == NextToken(tokens, "index", i)
        title == IF at = 0 THEN 0 ELSE NextToken(tokens, "title", at + 1)
        found == title # 0 /\ title < Len(tokens) /\ tokens[title + 1].tag = "hours"
    IN  IF at = 0 \/ title = 0 THEN hours_map
        ELSE hours_scan(tokens, IF found THEN title + 2 ELSE title + 1,
                 (tokens[at].value :> (IF found THEN tokens[title + 1].value ELSE <<>>))
                     @@ hours_map)

extract_working_hours(page) == hours_scan(page_tokens(page.cards), 1, <<>>)

\* process_records (lines 139-162); the record is reduced to the fields
\* the deduplication of main() and the combiner read, and working_hours.
process_records(recs, record_type, hours_map) ==
    [i \in 1..Len(recs) |->
        [name |-> recs[i].title, type |-> record_type,
         working_hours |-> IF (i - 1) \in DOMAIN hours_map THEN hours_map[i - 1] ELSE <<>>,
         latitude |-> recs[i].lat, longitude |-> recs[i].lng]]

\* The pages of the model.
MedPoints == {[title |-> t, lat |-> <<"40.38">>, lng |-> <<"49.86">>] : t \in {<<>>, <<"A">>}}
CardIndexes == {0, 1}
CardHours(k) == IF k = 0 THEN <<"09:00">> ELSE <<"10:00">>
Cards == {[index |-> k, title |-> t, layout |-> l, hours |-> CardHours(k)] :
             k \in CardIndexes, t \in {None, Some(<<"A">>)},
             l \in {"adjacent", "apart", "none"}}
Pages(max_objects, max_cards) ==
    {[med_points |-> Some(objects), cards |-> cards] :
        objects \in SeqUpTo(MedPoints, max_objects), cards \in SeqUpTo(Cards, max_cards)}

InitMeqa ==
    /\ MainIdle /\ RowIdle /\ DedupIdle /\ XmlIdle /\ FetchIdle /\ SourceIdle
    /\ m_pc = "page" /\ html_content \in Pages(MaxObjects, MaxCards)
    /\ MeqaLocalsUnset

\* main(), line 204.
meqa_extract_med_points ==
    /\ m_pc = "page"
    /\ m_records' = extract_med_points(html_content)
    /\ m_pc' = "points"
    /\ UNCHANGED <<html_content, working_hours, processed>>
    /\ UNCHANGED <<main_vars, row_vars, dedup_vars, xml_vars, fetch_vars, source_vars>>

\* main(), line 208.
meqa_extract_working_hours ==
    /\ m_pc = "points"
    /\ working_hours' = extract_working_hours(html_content)
    /\ m_pc' = "hours"
    /\ UNCHANGED <<html_content, m_records, processed>>
    /\ UNCHANGED <<main_vars, row_vars, dedup_vars, xml_vars, fetch_vars, source_vars>>

\* main(), lines 211-212; the pages of PAGES all have type CLINIC or
\* PHARMACY, here "CLINIC".
meqa_process_records ==
    /\ m_pc = "hours"
    /\ processed' = process_records(m_records, "CLINIC", working_hours)
    /\ m_pc' = "done"
    /\ UNCHANGED <<html_content, m_records, working_hours>>
    /\ UNCHANGED <<main_vars, row_vars, dedup_vars, xml_vars, fetch_vars, source_vars>>

NextMeqa == meqa_extract_med_points \/ meqa_extract_working_hours \/ meqa_process_records

SpecMeqa == InitMeqa /\ [][NextMeqa]_vars

\* The cards of the page that carry this index, and the hours such a card
\* lists ("" when it lists none).
CardsAt(k) == {i \in 1..Len(html_content.cards) : html_content.cards[i].index = k}
ListedHours(card) == IF card.layout = "none" THEN <<>> ELSE card.hours

\* The position, among the records, of the record built from object k
\* (counted from 0): objects without a title give no record.
RecordOf(k) ==
    Cardinality({j \in 1..(k + 1) : Get(html_content.med_points)[j].title # <<>>})

\* C22: the record built from the k-th object of the literal has the hours
\* the card with data-marker-index k lists, and empty hours when no card
\* has this index or the card lists none.
C22_HoursByIndex ==
    m_pc = "done" =>
        \A k \in 0..(Len(Get(html_content.med_points)) - 1) :
            (/\ Get(html_content.med_points)[k + 1].title # <<>>
             /\ Cardinality(CardsAt(k)) <= 1)
            => processed[RecordOf(k)].working_hours
                  = IF CardsAt(k) = {} THEN <<>>
                    ELSE ListedHours(html_content.cards[CHOOSE i \in CardsAt(k) : TRUE])


----------------------------------------------------------------------------
(* The removal of duplicates in the main() of a fetcher, followed by the   *)
(* combiner reading the file the fetcher saved.                            *)

\* The key of the loop that removes duplicates: name and address in aiic.py
\* (line 179), name, latitude and longitude in a_group.py (line 282),
\* ateshgah.py (line 179) and meqa_sigorta.py (line 222).
fetcher_key_name_only(source, record) == <<record.name>>

fetcher_key(source, record) ==
    IF source = "AIIC" THEN <<record.name, record.address>>
    ELSE <<record.name, record.latitude, record.longitude>>

RECURSIVE fetcher_unique(_, _, _)
fetcher_unique(source, seen, rest) ==
    IF rest = <<>> THEN <<>>
    ELSE IF fetcher_key(source, Head(rest)) \notin seen
    THEN <<Head(rest)>>
         \o fetcher_unique(source, seen \cup {fetcher_key(source, Head(rest))}, Tail(rest))
    ELSE fetcher_unique(source, seen, Tail(rest))

\* combine.main for the file a fetcher saved from these records: load_csv
\* under the entry of the source, then deduplicate_records.
combine_source(cfg, recs) ==
    deduplicate_records(
        load_csv(Some([i \in 1..Len(recs) |-> agroup_csv_row(recs[i])]), cfg)).unique_records

\* The records a fetcher may hold: the texts it saves.
FetchedCoords == {<<<<>>, <<>>>>, <<<<"40.38">>, <<"49.86">>>>,
                  <<<<"40.38004">>, <<"49.86003">>>>, <<<<"40.3802">>, <<"49.86">>>>}
FetchedRecords ==
    {[name |-> n, type |-> "CLINIC", address |-> a, phone |-> <<>>,
      latitude |-> c[1], longitude |-> c[2]] :
        n \in {<<"Clinic", " ", "X">>, <<"clinic", " ", "X">>},
        a \in {<<"Foo">>, <<"Bar">>}, c \in FetchedCoords}
Fetchers == {i \in 1..Len(SOURCE_FILES) :
                SOURCE_FILES[i].source \in {"AIIC", "Ateshgah", "Meqa Sigorta", "A-Group"}}

InitSource ==
    /\ MainIdle /\ RowIdle /\ DedupIdle /\ XmlIdle /\ FetchIdle /\ MeqaIdle
    /\ s_pc = "fetched" /\ s_source \in Fetchers
    /\ s_records \in SeqUpTo(FetchedRecords, MaxFetched)
    /\ SourceLocalsUnset

\* The loop of the fetcher's main() that removes duplicates, and
\* save_to_csv(unique_records, ...).
source_dedup ==
    /\ s_pc = "fetched"
    /\ s_unique' = fetcher_unique(SOURCE_FILES[s_source].source, {}, s_records)
    /\ s_pc' = "saved"
    /\ UNCHANGED <<s_source, s_records, with_step, without_step>>
    /\ UNCHANGED <<main_vars, row_vars, dedup_vars, xml_vars, fetch_vars, meqa_vars>>

\* The combiner run on the file saved, and on a file of all the records.
source_combine ==
    /\ s_pc = "saved"
    /\ with_step' = combine_source(SOURCE_FILES[s_source], s_unique)
    /\ without_step' = combine_source(SOURCE_FILES[s_source], s_records)
    /\ s_pc' = "done"
    /\ UNCHANGED <<s_source, s_records, s_unique>>
    /\ UNCHANGED <<main_vars, row_vars, dedup_vars, xml_vars, fetch_vars, meqa_vars>>

NextSource == source_dedup \/ source_combine

SpecSource == InitSource /\ [][NextSource]_vars

\* The records the fetcher dropped: those with the fetcher's key of an
\* earlier record.
SourceName == SOURCE_FILES[s_source].source
Dropped ==
    {i \in 1..Len(s_records) :
        \E j \in 1..(i - 1) :
            fetcher_key(SourceName, s_records[j]) = fetcher_key(SourceName, s_records[i])}

\* The identity key the combiner gives the record once loaded.
CombinerKey(record) ==
    dedup_key(load_row(SOURCE_FILES[s_source], agroup_csv_row(record))[1])
SharesCombinerKey(i) ==
    \E j \in 1..(i - 1) : CombinerKey(s_records[j]) = CombinerKey(s_records[i])
KeysOf(recs) == {dedup_key(recs[i]) : i \in 1..Len(recs)}

\* C24 as stated: every record a fetcher drops shares the combiner's key with
\* an earlier record, and the combined output is the same as without the
\* fetcher's step.
C24_Original ==
    s_pc = "done" =>
        /\ \A i \in Dropped : SharesCombinerKey(i)
        /\ with_step = without_step

\* C24 amended: this holds for the fetchers keyed on name, latitude and
\* longitude.  A record AIIC drops has the name and the address of an
\* earlier record; the combiner keeps no key it would not have kept
\* otherwise, and its output is the same when every record dropped shares
\* the combiner's key with an earlier one.
C24_Amended ==
    s_pc = "done" =>
        /\ SourceName # "AIIC" =>
              /\ \A i \in Dropped : SharesCombinerKey(i)
              /\ with_step = without_step
        /\ SourceName = "AIIC" =>
              /\ \A i \in Dropped : \E j \in 1..(i - 1) :
                    /\ s_records[j].name = s_records[i].name
                    /\ s_records[j].address = s_records[i].address
              /\ KeysOf(with_step) \subseteq KeysOf(without_step)
              /\ (\A i \in Dropped : SharesCombinerKey(i)) => with_step = without_step

\* C24 witness: a fetcher keyed on name and coordinates dropped a record
\* whose address differs from that of the record kept, and the combiner
\* keeps the same records either way.
C24_Witness ==
    /\ s_pc = "done" /\ SourceName = "A-Group"
    /\ Len(s_records) = 2 /\ Dropped = {2}
    /\ s_records[1].address # s_records[2].address
    /\ Len(s_unique) = 1
    /\ with_step = without_step /\ Len(with_step) = 1

====
